---- MODULE Spec2Model ----
(***************************************************************************)
(* Job lifecycle and adaptive parameter search controller of z_realism_ai. *)
(*                                                                         *)
(* Two controllers of the repository are modelled:                         *)
(*   - the research controller  src/presentation-custom/app.js (v19.7):    *)
(*     startFusingSequence / pollInferenceTelemetry /                      *)
(*     renderFinalMasterwork / handleOptimizationLoop  (Spec);             *)
(*   - the production controller src/presentation/js/lab-image.js (v2.1)   *)
(*     on top of the shared bridge src/presentation/js/api.js (v23.1):     *)
(*     postToGateway / pollNeuralTask  (SpecLab).                          *)
(*                                                                         *)
(* Further specifications of the research controller: SpecDeep (a remote   *)
(* API that accepts more jobs), SpecFair (timers fire, requests are        *)
(* answered), SpecSession (an autopilot session close to its budget),      *)
(* SpecLoop (that session without further clicks), SpecOpt (the mutation   *)
(* rule of handleOptimizationLoop on its own), SpecDesk                    *)
(* (executeDNAAnalysis, edits of the controls and clicks on the gallery,   *)
(* after a session that has ended) and SpecStale (PROGRESS answers that    *)
(* arrive after later answers).                                            *)
(*                                                                         *)
(* The controller of the earlier revision v16.2.1 (src/unnamed/part_003)   *)
(* is modelled on its own (SpecLegacy).                                    *)
(*                                                                         *)
(* Numbers: weights, strengths and metrics are kept in hundredths          *)
(* (0.75 is 75); a fitness score (ssim + idp) / 2 is kept doubled          *)
(* (ssim + idp, in hundredths), so that every comparison of the code is    *)
(* an integer comparison.                                                  *)
(***************************************************************************)
EXTENDS Integers, Naturals, Sequences, FiniteSets, Bags, TLC

\* ------------------------------------------------------------------ bounds
\* Jobs the remote API accepts in one run (later submissions get 429 or fail).
MaxJobs == 1
\* Ticks of a poller that find an earlier status request still unanswered.
MaxOverlaps == 1
\* Clicks on the generate button while a file is selected and the lock is free.
MaxClicks == 1
\* The highest percentage a worker reports in the lab.
MaxPercent == 2
\* Analyses asked, edits of the controls and clicks on the gallery in one run.
MaxDeskOps == 2

\* Identifiers setInterval may hand out at the same time.
MaxIntervals == MaxOverlaps + 2

\* -------------------------------------------------------- program constants
maxAttempts == 5
\* targetThreshold 0.92, doubled and in hundredths
targetThreshold2 == 184
DefaultDepth == 75
DefaultPose == 40
DefaultStrength == 70
DefaultSeed == 42
DefaultNegativePrompt == "anime, cartoon, low quality"
SsimFloor == 88
IdFloor == 90
DepthStep == 3
DepthMax == 120
StrengthDown == 2
StrengthMin == 50
StrengthUp == 1
StrengthMax == 95
SeedModulus == 1000000

\* Values Math.floor(Math.random() * 1000000) is sampled at.
SeedSamples == {SeedModulus - 1}

\* Metrics the engine may attach to a finished job, in hundredths: one below
\* the target (the optimizer continues), one above it (the optimizer stops).
MetricSamples ==
  { [ssim |-> 80, idp |-> 85, inference_time |-> 12],
    [ssim |-> 95, idp |-> 93, inference_time |-> 12] }

\* Values of metrics.inference_time (seconds) a result may carry.
InferenceTimes == {12, 47}

NoMetrics == [ssim |-> 0, idp |-> 0, inference_time |-> 0]

\* Terminal outcomes handled for a job: results recorded, FAILURE statuses
\* handled, errors caught.
NoOutcome == [ok |-> 0, fail |-> 0, err |-> 0]

VARIABLES
  \* ---- app.js: state
  selectedFile,     \* state.selectedFile is set
  isProcessing,     \* state.isProcessing (the single-flight lock)
  taskId,           \* state.taskId; 0 stands for null / undefined
  params,           \* state.recommendedParams
  optActive,        \* state.optimization.active
  attempts,         \* state.optimization.attempts
  bestScore,        \* state.optimization.bestScore (doubled, hundredths)
  history,          \* state.optimization.history
  \* ---- app.js: ui
  chkAutoPilot,     \* ui.chkAutoPilot.checked
  uiSeed,           \* ui.seedInput.value
  uiSliders,        \* ui.cnDepthSlider, ui.cnPoseSlider, ui.strengthSlider values
  promptInput,      \* ui.promptInput.value
  renderSliders,    \* ui.resSlider, ui.stepsSlider, ui.cfgSlider values
  essenceTag,       \* ui.essenceTag.innerText
  displayed,        \* the candidate ui.resultDisplay and the metrics panel show
  \* ---- app.js: event loop
  posts,            \* bag of POST /transform requests awaiting their response
  intervals,        \* identifiers of the live setInterval pollers
  statusReqs,       \* bag of GET /status requests awaiting their response
  progressReplies,  \* bag of PROGRESS answers on their way back to the page
  renderTimers,     \* pending setTimeout(renderFinalMasterwork) timers
  resultReqs,       \* bag of GET /result requests awaiting their response
  resubmitTimers,   \* pending setTimeout(... startFusingSequence) timers
  analyzeReqs,      \* POST /analyze requests awaiting their response
  \* ---- remote job API
  srv,              \* jobs of the remote API, job identifier = index
  \* ---- observation
  delivered,        \* per job: how many terminal outcomes the controller handled
  clicks,           \* clicks on the generate button that sent a request
  submitted,        \* POST /transform requests sent since the last such click
  overlaps,         \* ticks that found a status request still unanswered
  deskOps,          \* analyses asked, edits of the controls, gallery clicks
  ev                \* the last step taken

\* The controls executeDNAAnalysis and the user write, and the tag line.
deskVars ==
  << uiSliders, promptInput, renderSliders, essenceTag, displayed, analyzeReqs,
     deskOps >>

appVars ==
  << deskVars, selectedFile, isProcessing, taskId, params, optActive, attempts, bestScore,
     history, chkAutoPilot, uiSeed, posts, intervals, statusReqs, renderTimers,
     resultReqs, resubmitTimers, srv, delivered, clicks, submitted, overlaps, ev,
     progressReplies >>

VARIABLES
  \* ---- lab-image.js: state
  labSelectedFile,  \* state.selectedFile is set
  labIsProcessing,  \* state.isProcessing
  lastTaskId,       \* state.lastTaskId; 0 stands for null
  \* ---- api.js: requests and pollers
  labPosts,         \* POST /transform requests of postToGateway in flight
  pollingIntervals, \* jobs whose pollNeuralTask interval is live
  labStatusReqs,    \* bag of GET /status/{taskId} in flight (job ids)
  labResultReqs,    \* bag of GET /result/{taskId} in flight (job ids)
  \* ---- remote API
  labSrv,           \* job id -> [st, ready]
  \* ---- observation
  labDelivered,     \* job id -> what onComplete was called with, how often
  labProgress,      \* job id -> the last PROGRESS payload and what onProgress got
  labClicks,        \* clicks that passed the guard
  labOverlaps,      \* ticks that found a status request unanswered
  labEv             \* the step taken last

labVars ==
  << labSelectedFile, labIsProcessing, lastTaskId, labPosts, pollingIntervals,
     labStatusReqs, labResultReqs, labSrv, labDelivered, labProgress, labClicks,
     labOverlaps, labEv >>

VARIABLES
  \* ---- app.js v16.2.1: state and controls
  legacySelectedFile, \* state.selectedFile is set
  legacyIsProcessing, \* state.isProcessing
  legacyTaskId,       \* state.taskId; 0 stands for null / undefined
  legacyLocked,       \* ui.btnGenerate.disabled and ui.btnAnalyze.disabled
  \* ---- app.js v16.2.1: event loop
  legacyPosts,        \* POST /transform requests awaiting their response
  legacyAnalyzeReqs,  \* POST /analyze requests awaiting their response
  legacyInterval,     \* the setInterval poller is live
  legacyStatusReqs,   \* GET /status requests awaiting their response
  legacyResultReqs,   \* GET /result requests awaiting their response
  \* ---- remote job API
  legacySrv,          \* the job of the remote API: "NONE", "RUN", "SUCCESS", "FAILURE"
  \* ---- observation
  legacyOverlaps,     \* ticks that found a status request still unanswered
  legacyEv            \* the step taken last

legacyVars ==
  << legacySelectedFile, legacyIsProcessing, legacyTaskId, legacyLocked, legacyPosts,
     legacyAnalyzeReqs, legacyInterval, legacyStatusReqs, legacyResultReqs, legacySrv,
     legacyOverlaps, legacyEv >>

vars == << appVars, labVars, legacyVars >>

Ev(op, job) == [op |-> op, job |-> job, auto |-> FALSE]
EvAuto(op, auto) == [op |-> op, job |-> 0, auto |-> auto]

Min(a, b) == IF a < b THEN a ELSE b
Max(a, b) == IF a > b THEN a ELSE b

\* ------------------------------------------------------------ bag helpers
BagAdd(b, e) == b (+) SetToBag({e})
BagRemove(b, e) == b (-) SetToBag({e})

\* --------------------------------------------------------------- app.js
\* updateRecommendedParamsFromUI: the three sliders are read, the negative
\* prompt is kept, the seed input holds what toggleControls(false) last wrote.
UiParams ==
  [cn_depth |-> uiSliders.cn_depth, cn_pose |-> uiSliders.cn_pose,
   strength |-> uiSliders.strength,
   negative_prompt |-> params.negative_prompt, seed |-> uiSeed]

\* state.recommendedParams as the page loads
DefaultParams ==
  [cn_depth |-> DefaultDepth, cn_pose |-> DefaultPose, strength |-> DefaultStrength,
   negative_prompt |-> DefaultNegativePrompt, seed |-> DefaultSeed]

\* startFusingSequence: the fields of the request body read from the controls
SentFields ==
  [feature_prompt |-> promptInput,
   resolution_anchor |-> renderSliders.resolution_anchor,
   steps |-> renderSliders.steps,
   cfg_scale |-> renderSliders.cfg_scale]

\* The controls as the page loads.
DefaultSliders ==
  [cn_depth |-> DefaultDepth, cn_pose |-> DefaultPose, strength |-> DefaultStrength]
DefaultRender ==
  [resolution_anchor |-> "initial", steps |-> "initial", cfg_scale |-> "initial"]
DefaultFields ==
  [feature_prompt |-> "initial", resolution_anchor |-> "initial",
   steps |-> "initial", cfg_scale |-> "initial"]

\* Nothing shown yet in the result display.
NoCandidate == [id |-> 0, metrics |-> NoMetrics, params |-> DefaultParams]

DeskInit ==
  /\ uiSliders = DefaultSliders
  /\ promptInput = "initial"
  /\ renderSliders = DefaultRender
  /\ essenceTag = "initial"
  /\ displayed = NoCandidate
  /\ analyzeReqs = 0
  /\ deskOps = 0

\* A guard that ignores the lock.
SubmitGuard_NoLock(file, proc) == file

\* The guard of startFusingSequence: an asset is present and the lock is free.
SubmitGuard(file, proc) == file /\ ~proc

\* toggleControls(locked), with p the recommendedParams at the call.
ToggleControls(locked, p) ==
  /\ isProcessing' = locked
  /\ uiSeed' = IF locked THEN uiSeed ELSE p.seed

\* The synchronous part of startFusingSequence, entered with the lock value
\* proc and the parameter set p: the request is sent, or nothing happens.
\* auto tells the call of the resubmission timer from the call of a click.
StartFusingSequence(p, proc, auto) ==
  IF SubmitGuard(selectedFile, proc)
  THEN /\ ToggleControls(TRUE, p)
       /\ posts' = BagAdd(posts, [params |-> p, fields |-> SentFields, auto |-> auto])
       /\ submitted' = IF auto THEN submitted + 1 ELSE 1
       /\ ev' = EvAuto("submit_sent", auto)
  ELSE /\ isProcessing' = proc
       /\ uiSeed' = uiSeed
       /\ posts' = posts
       /\ submitted' = submitted
       /\ ev' = EvAuto("submit_rejected", auto)

\* fileInput 'change'
SelectFile ==
  /\ ~selectedFile
  /\ selectedFile' = TRUE
  /\ ev' = Ev("select_file", 0)
  /\ UNCHANGED << isProcessing, taskId, params, optActive, attempts, bestScore,
                  history, chkAutoPilot, uiSeed, posts, intervals, statusReqs,
                  renderTimers, resultReqs, resubmitTimers, srv, delivered, clicks,
                  overlaps >>
  /\ UNCHANGED deskVars
  /\ UNCHANGED << submitted, progressReplies >>
  /\ UNCHANGED labVars
  /\ UNCHANGED legacyVars

\* A click handler that starts a job without resetting the session.
InitializeFusion_KeepsSession(ap) ==
  /\ ap = chkAutoPilot \/ ~isProcessing
  /\ chkAutoPilot' = ap
  /\ (selectedFile /\ ~isProcessing) => clicks < MaxClicks
  /\ clicks' = IF selectedFile /\ ~isProcessing THEN clicks + 1 ELSE clicks
  /\ optActive' = ap
  /\ params' = UiParams
  /\ StartFusingSequence(UiParams, isProcessing, FALSE)
  /\ UNCHANGED << attempts, bestScore, history >>
  /\ UNCHANGED << selectedFile, taskId, intervals, statusReqs, renderTimers,
                  resultReqs, resubmitTimers, srv, delivered, overlaps >>
  /\ UNCHANGED deskVars
  /\ UNCHANGED progressReplies
  /\ UNCHANGED labVars
  /\ UNCHANGED legacyVars

\* btnGenerate 'click', with ap the state of the auto-pilot checkbox at the
\* click: the user may have flipped it unless toggleControls(true) disabled it.
InitializeFusion(ap) ==
  /\ ap = chkAutoPilot \/ ~isProcessing
  /\ chkAutoPilot' = ap
  /\ (selectedFile /\ ~isProcessing) => clicks < MaxClicks
  /\ clicks' = IF selectedFile /\ ~isProcessing THEN clicks + 1 ELSE clicks
  /\ attempts' = 0
  /\ bestScore' = 0
  /\ optActive' = ap
  /\ history' = << >>
  /\ params' = UiParams
  /\ StartFusingSequence(UiParams, isProcessing, FALSE)
  /\ UNCHANGED << selectedFile, taskId, intervals, statusReqs, renderTimers,
                  resultReqs, resubmitTimers, srv, delivered, overlaps >>
  /\ UNCHANGED deskVars
  /\ UNCHANGED progressReplies
  /\ UNCHANGED labVars
  /\ UNCHANGED legacyVars

\* The identifier setInterval hands out: one no live poller and no outstanding
\* request still refers to.
FreeIntervals ==
  { i \in 1..MaxIntervals :
      /\ i \notin intervals
      /\ \A q \in BagToSet(statusReqs) : q.iv # i }

NewInterval == CHOOSE i \in FreeIntervals : \A k \in FreeIntervals : i <= k

\* pollInferenceTelemetry(): a new setInterval poller
PollInferenceTelemetry == intervals' = intervals \cup {NewInterval}

\* A handler of the 429 answer that leaves the lock as it is.
PostBusy_KeepsLock(p) ==
  /\ p \in BagToSet(posts)
  /\ posts' = BagRemove(posts, p)
  /\ ev' = EvAuto("post_429", p.auto)
  /\ UNCHANGED << selectedFile, isProcessing, taskId, params, optActive, attempts,
                  bestScore, history, chkAutoPilot, uiSeed, intervals, statusReqs,
                  renderTimers, resultReqs, resubmitTimers, srv, delivered,
                  clicks, overlaps >>
  /\ UNCHANGED deskVars
  /\ UNCHANGED << submitted, progressReplies >>
  /\ UNCHANGED labVars
  /\ UNCHANGED legacyVars

\* POST /transform answered 429: alert, toggleControls(false), return
PostBusy(p) ==
  /\ p \in BagToSet(posts)
  /\ posts' = BagRemove(posts, p)
  /\ ToggleControls(FALSE, params)
  /\ ev' = EvAuto("post_429", p.auto)
  /\ UNCHANGED << selectedFile, taskId, params, optActive, attempts, bestScore,
                  history, chkAutoPilot, intervals, statusReqs, renderTimers,
                  resultReqs, resubmitTimers, srv, delivered, clicks, overlaps >>
  /\ UNCHANGED deskVars
  /\ UNCHANGED << submitted, progressReplies >>
  /\ UNCHANGED labVars
  /\ UNCHANGED legacyVars

\* POST /transform fails in transport (or its body is no JSON): catch
PostFailed(p) ==
  /\ p \in BagToSet(posts)
  /\ posts' = BagRemove(posts, p)
  /\ ToggleControls(FALSE, params)
  /\ ev' = EvAuto("post_err", p.auto)
  /\ UNCHANGED << selectedFile, taskId, params, optActive, attempts, bestScore,
                  history, chkAutoPilot, intervals, statusReqs, renderTimers,
                  resultReqs, resubmitTimers, srv, delivered, clicks, overlaps >>
  /\ UNCHANGED deskVars
  /\ UNCHANGED << submitted, progressReplies >>
  /\ UNCHANGED labVars
  /\ UNCHANGED legacyVars

\* POST /transform answered 200 {task_id}: the job exists, polling starts
PostAccepted(p, cap) ==
  /\ p \in BagToSet(posts)
  /\ Len(srv) < cap
  /\ FreeIntervals # {}
  /\ posts' = BagRemove(posts, p)
  /\ srv' = Append(srv, [st |-> "RUN", metrics |-> NoMetrics, params |-> p.params,
                          fields |-> p.fields, auto |-> p.auto])
  /\ delivered' = Append(delivered, NoOutcome)
  /\ taskId' = Len(srv) + 1
  /\ PollInferenceTelemetry
  /\ ev' = Ev("post_ok", Len(srv) + 1)
  /\ UNCHANGED << selectedFile, isProcessing, params, optActive, attempts,
                  bestScore, history, chkAutoPilot, uiSeed, statusReqs,
                  renderTimers, resultReqs, resubmitTimers, clicks, overlaps >>
  /\ UNCHANGED deskVars
  /\ UNCHANGED << submitted, progressReplies >>
  /\ UNCHANGED labVars
  /\ UNCHANGED legacyVars

\* POST /transform answered with a JSON body that has no task_id (an error
\* body that is not a 429): state.taskId = undefined, polling starts
PostNoTaskId(p) ==
  /\ p \in BagToSet(posts)
  /\ FreeIntervals # {}
  /\ posts' = BagRemove(posts, p)
  /\ taskId' = 0
  /\ PollInferenceTelemetry
  /\ ev' = EvAuto("post_notask", p.auto)
  /\ UNCHANGED << selectedFile, isProcessing, params, optActive, attempts,
                  bestScore, history, chkAutoPilot, uiSeed, statusReqs,
                  renderTimers, resultReqs, resubmitTimers, srv, delivered, clicks,
                  overlaps >>
  /\ UNCHANGED deskVars
  /\ UNCHANGED << submitted, progressReplies >>
  /\ UNCHANGED labVars
  /\ UNCHANGED legacyVars

\* One tick of a setInterval poller: it stops when there is no task, and
\* otherwise sends GET /status/{state.taskId}, whatever is still outstanding.
IntervalTick(iv) ==
  /\ iv \in intervals
  /\ IF taskId = 0
     THEN /\ intervals' = intervals \ {iv}
          /\ statusReqs' = statusReqs
          /\ ev' = Ev("tick_cleared", 0)
     ELSE /\ statusReqs = EmptyBag \/ overlaps < MaxOverlaps
          /\ intervals' = intervals
          /\ statusReqs' = BagAdd(statusReqs, [iv |-> iv, job |-> taskId])
          /\ ev' = Ev("tick_poll", taskId)
  /\ overlaps' = IF taskId # 0 /\ statusReqs # EmptyBag THEN overlaps + 1 ELSE overlaps
  /\ UNCHANGED << selectedFile, isProcessing, taskId, params, optActive, attempts,
                  bestScore, history, chkAutoPilot, uiSeed, posts, renderTimers,
                  resultReqs, resubmitTimers, srv, delivered, clicks >>
  /\ UNCHANGED deskVars
  /\ UNCHANGED << submitted, progressReplies >>
  /\ UNCHANGED labVars
  /\ UNCHANGED legacyVars

\* GET /status answered PROGRESS: the progress bar is updated
StatusProgress(q) ==
  /\ q \in BagToSet(statusReqs)
  /\ srv[q.job].st = "RUN"
  /\ statusReqs' = BagRemove(statusReqs, q)
  /\ ev' = Ev("st_progress", q.job)
  /\ UNCHANGED << selectedFile, isProcessing, taskId, params, optActive, attempts,
                  bestScore, history, chkAutoPilot, uiSeed, posts, intervals,
                  renderTimers, resultReqs, resubmitTimers, srv, delivered, clicks,
                  overlaps >>
  /\ UNCHANGED deskVars
  /\ UNCHANGED << submitted, progressReplies >>
  /\ UNCHANGED labVars
  /\ UNCHANGED legacyVars

\* GET /status answered SUCCESS: clearInterval, render after 600 ms
StatusSuccess(q) ==
  /\ q \in BagToSet(statusReqs)
  /\ srv[q.job].st = "SUCCESS"
  /\ statusReqs' = BagRemove(statusReqs, q)
  /\ intervals' = intervals \ {q.iv}
  /\ renderTimers' = renderTimers + 1
  /\ ev' = Ev("st_success", q.job)
  /\ UNCHANGED << selectedFile, isProcessing, taskId, params, optActive, attempts,
                  bestScore, history, chkAutoPilot, uiSeed, posts, resultReqs,
                  resubmitTimers, srv, delivered, clicks, overlaps >>
  /\ UNCHANGED deskVars
  /\ UNCHANGED << submitted, progressReplies >>
  /\ UNCHANGED labVars
  /\ UNCHANGED legacyVars

\* What the FAILURE branch does to the session flag.
ActiveAfterFailure(active) == FALSE

\* GET /status answered FAILURE: clearInterval, session off, toggleControls(false)
StatusFailure(q) ==
  /\ q \in BagToSet(statusReqs)
  /\ srv[q.job].st = "FAILURE"
  /\ statusReqs' = BagRemove(statusReqs, q)
  /\ intervals' = intervals \ {q.iv}
  /\ optActive' = ActiveAfterFailure(optActive)
  /\ ToggleControls(FALSE, params)
  /\ delivered' = [delivered EXCEPT ![q.job].fail = @ + 1]
  /\ ev' = Ev("st_failure", q.job)
  /\ UNCHANGED << selectedFile, taskId, params, attempts, bestScore, history,
                  chkAutoPilot, posts, renderTimers, resultReqs, resubmitTimers,
                  srv, clicks, overlaps >>
  /\ UNCHANGED deskVars
  /\ UNCHANGED << submitted, progressReplies >>
  /\ UNCHANGED labVars
  /\ UNCHANGED legacyVars

\* GET /status fails in transport, or its payload cannot be read (no JSON, a
\* PROGRESS without a progress object): catch -> clearInterval, toggleControls(false)
StatusError(q) ==
  /\ q \in BagToSet(statusReqs)
  /\ statusReqs' = BagRemove(statusReqs, q)
  /\ intervals' = intervals \ {q.iv}
  /\ ToggleControls(FALSE, params)
  /\ delivered' = [delivered EXCEPT ![q.job].err = @ + 1]
  /\ ev' = Ev("st_err", q.job)
  /\ UNCHANGED << selectedFile, taskId, params, optActive, attempts, bestScore,
                  history, chkAutoPilot, posts, renderTimers, resultReqs,
                  resubmitTimers, srv, clicks, overlaps >>
  /\ UNCHANGED deskVars
  /\ UNCHANGED << submitted, progressReplies >>
  /\ UNCHANGED labVars
  /\ UNCHANGED legacyVars

\* setTimeout(renderFinalMasterwork) fires: GET /result/{state.taskId}
RenderTimerFires ==
  /\ renderTimers > 0
  /\ renderTimers' = renderTimers - 1
  /\ resultReqs' = BagAdd(resultReqs, taskId)
  /\ ev' = Ev("render_fetch", taskId)
  /\ UNCHANGED << selectedFile, isProcessing, taskId, params, optActive, attempts,
                  bestScore, history, chkAutoPilot, uiSeed, posts, intervals,
                  statusReqs, resubmitTimers, srv, delivered, clicks, overlaps >>
  /\ UNCHANGED deskVars
  /\ UNCHANGED << submitted, progressReplies >>
  /\ UNCHANGED labVars
  /\ UNCHANGED legacyVars

\* GET /result answered 202: try again in 500 ms
ResultPending(j) ==
  /\ j \in BagToSet(resultReqs)
  /\ j # 0
  /\ resultReqs' = BagRemove(resultReqs, j)
  /\ renderTimers' = renderTimers + 1
  /\ ev' = Ev("res_202", j)
  /\ UNCHANGED << selectedFile, isProcessing, taskId, params, optActive, attempts,
                  bestScore, history, chkAutoPilot, uiSeed, posts, intervals,
                  statusReqs, resubmitTimers, srv, delivered, clicks, overlaps >>
  /\ UNCHANGED deskVars
  /\ UNCHANGED << submitted, progressReplies >>
  /\ UNCHANGED labVars
  /\ UNCHANGED legacyVars

\* handleOptimizationLoop: the score of a candidate, doubled
CurrentScore2(m) == m.ssim + m.idp

\* A stop rule that looks at the budget only after one more result.
StopDecision_OneMore(score2, att) == score2 >= targetThreshold2 \/ att > maxAttempts

\* A best score that is the score of the latest result.
NextBestScore_Latest(best, score2) == score2

\* handleOptimizationLoop: the best score after a result with score score2
NextBestScore(best, score2) == IF score2 > best THEN score2 ELSE best

\* A stop rule that looks at the target only.
StopDecision_TargetOnly(score2, att) == score2 >= targetThreshold2

\* handleOptimizationLoop: stop on target reached or budget used up, with att
\* the attempt counter after its increment
StopDecision(score2, att) == score2 >= targetThreshold2 \/ att >= maxAttempts

\* A depth rule without its upper clamp.
NextDepth_NoClamp(p, m) ==
  IF m.ssim < SsimFloor THEN p.cn_depth + DepthStep ELSE p.cn_depth

\* A depth rule that ignores the structural floor.
NextDepth_Always(p, m) == Min(DepthMax, p.cn_depth + DepthStep)

\* handleOptimizationLoop, line 318: the next cn_depth
NextDepth(p, m) ==
  IF m.ssim < SsimFloor THEN Min(DepthMax, p.cn_depth + DepthStep) ELSE p.cn_depth

\* A strength rule that backs off after a slow inference.
NextStrength_Hurried(p, m) ==
  IF m.idp < IdFloor \/ m.inference_time > 30
  THEN Max(StrengthMin, p.strength - StrengthDown)
  ELSE Min(StrengthMax, p.strength + StrengthUp)

\* handleOptimizationLoop, lines 319-320: the next strength
NextStrength(p, m) ==
  IF m.idp < IdFloor
  THEN Max(StrengthMin, p.strength - StrengthDown)
  ELSE Min(StrengthMax, p.strength + StrengthUp)

\* handleOptimizationLoop: adaptive sampling, s the value drawn for the seed
Mutate(p, m, s) ==
  [cn_depth |-> NextDepth(p, m), cn_pose |-> p.cn_pose,
   strength |-> NextStrength(p, m),
   negative_prompt |-> p.negative_prompt, seed |-> s]

\* handleOptimizationLoop: what the tag line shows when the loop stops
StopReport(score2, att) == "OPTIMIZATION COMPLETE."

\* renderFinalMasterwork: the candidate built from the result
Candidate(m) == [id |-> taskId, metrics |-> m, params |-> params]

\* A display that always shows the candidate recorded last.
DisplayCandidate_Latest(c) == IF history = << >> THEN c ELSE history[Len(history)]

\* displayCandidate: the image and the metrics of the candidate are shown
DisplayCandidate(c) == c

\* A gallery that records the newest candidate first.
AddCandidateToGallery_Prepend(h, c) == << c >> \o h

\* addCandidateToGallery: state.optimization.history.push(candidate)
AddCandidateToGallery(h, c) == Append(h, c)

\* A result handler that releases the lock when the loop continues.
ResultReady_ReleasesOnContinue(j) ==
  /\ j \in BagToSet(resultReqs)
  /\ j # 0
  /\ srv[j].st = "SUCCESS"
  /\ resultReqs' = BagRemove(resultReqs, j)
  /\ history' = AddCandidateToGallery(history, Candidate(srv[j].metrics))
  /\ displayed' = DisplayCandidate(Candidate(srv[j].metrics))
  /\ delivered' = [delivered EXCEPT ![j].ok = @ + 1]
  /\ IF optActive
     THEN LET m == srv[j].metrics
              score2 == CurrentScore2(m)
          IN  /\ attempts' = attempts + 1
              /\ bestScore' = NextBestScore(bestScore, score2)
              /\ IF StopDecision(score2, attempts + 1)
                 THEN /\ essenceTag' = StopReport(score2, attempts + 1)
                      /\ optActive' = FALSE
                      /\ ToggleControls(FALSE, params)
                      /\ params' = params
                      /\ resubmitTimers' = resubmitTimers
                      /\ ev' = Ev("res_stop", j)
                 ELSE /\ \E s \in SeedSamples : params' = Mutate(params, m, s)
                      /\ resubmitTimers' = resubmitTimers + 1
                      /\ isProcessing' = FALSE
                      /\ UNCHANGED << optActive, uiSeed, essenceTag >>
                      /\ ev' = Ev("res_continue", j)
     ELSE /\ ToggleControls(FALSE, params)
          /\ essenceTag' = essenceTag
          /\ ev' = Ev("res_single", j)
          /\ UNCHANGED << optActive, attempts, bestScore, params, resubmitTimers >>
  /\ UNCHANGED << selectedFile, taskId, chkAutoPilot, posts, intervals, statusReqs,
                  renderTimers, srv, clicks, overlaps >>
  /\ UNCHANGED << uiSliders, promptInput, renderSliders, analyzeReqs, deskOps >>
  /\ UNCHANGED << submitted, progressReplies >>
  /\ UNCHANGED labVars
  /\ UNCHANGED legacyVars

\* GET /result answered 200 with the artifact and its metrics
ResultReady(j) ==
  /\ j \in BagToSet(resultReqs)
  /\ j # 0
  /\ srv[j].st = "SUCCESS"
  /\ resultReqs' = BagRemove(resultReqs, j)
  /\ history' = AddCandidateToGallery(history, Candidate(srv[j].metrics))
  /\ displayed' = DisplayCandidate(Candidate(srv[j].metrics))
  /\ delivered' = [delivered EXCEPT ![j].ok = @ + 1]
  /\ IF optActive
     THEN LET m == srv[j].metrics
              score2 == CurrentScore2(m)
          IN  /\ attempts' = attempts + 1
              /\ bestScore' = NextBestScore(bestScore, score2)
              /\ IF StopDecision(score2, attempts + 1)
                 THEN /\ essenceTag' = StopReport(score2, attempts + 1)
                      /\ optActive' = FALSE
                      /\ ToggleControls(FALSE, params)
                      /\ params' = params
                      /\ resubmitTimers' = resubmitTimers
                      /\ ev' = Ev("res_stop", j)
                 ELSE /\ \E s \in SeedSamples : params' = Mutate(params, m, s)
                      /\ resubmitTimers' = resubmitTimers + 1
                      /\ UNCHANGED << optActive, isProcessing, uiSeed, essenceTag >>
                      /\ ev' = Ev("res_continue", j)
     ELSE /\ ToggleControls(FALSE, params)
          /\ essenceTag' = essenceTag
          /\ ev' = Ev("res_single", j)
          /\ UNCHANGED << optActive, attempts, bestScore, params, resubmitTimers >>
  /\ UNCHANGED << selectedFile, taskId, chkAutoPilot, posts, intervals, statusReqs,
                  renderTimers, srv, clicks, overlaps >>
  /\ UNCHANGED << uiSliders, promptInput, renderSliders, analyzeReqs, deskOps >>
  /\ UNCHANGED << submitted, progressReplies >>
  /\ UNCHANGED labVars
  /\ UNCHANGED legacyVars

\* GET /result fails in transport, or its body carries no metrics:
\* catch -> session off, toggleControls(false)
ResultError(j) ==
  /\ j \in BagToSet(resultReqs)
  /\ resultReqs' = BagRemove(resultReqs, j)
  /\ optActive' = FALSE
  /\ ToggleControls(FALSE, params)
  /\ delivered' = IF j = 0 THEN delivered ELSE [delivered EXCEPT ![j].err = @ + 1]
  /\ ev' = Ev("res_err", j)
  /\ UNCHANGED << selectedFile, taskId, params, attempts, bestScore, history,
                  chkAutoPilot, posts, intervals, statusReqs, renderTimers,
                  resubmitTimers, srv, clicks, overlaps >>
  /\ UNCHANGED deskVars
  /\ UNCHANGED << submitted, progressReplies >>
  /\ UNCHANGED labVars
  /\ UNCHANGED legacyVars

\* The 800 ms timer of handleOptimizationLoop:
\* state.isProcessing = false; startFusingSequence()
ResubmitTimerFires ==
  /\ resubmitTimers > 0
  /\ resubmitTimers' = resubmitTimers - 1
  /\ StartFusingSequence(params, FALSE, TRUE)
  /\ UNCHANGED << selectedFile, taskId, params, optActive, attempts, bestScore,
                  history, chkAutoPilot, intervals, statusReqs, renderTimers,
                  resultReqs, srv, delivered, clicks, overlaps >>
  /\ UNCHANGED deskVars
  /\ UNCHANGED progressReplies
  /\ UNCHANGED labVars
  /\ UNCHANGED legacyVars

\* ------------------------------------------------------- remote job API
\* The engine finishes a job with metrics m
ServerSucceeds(j, m) ==
  /\ j \in 1..Len(srv)
  /\ srv[j].st = "RUN"
  /\ srv' = [srv EXCEPT ![j].st = "SUCCESS", ![j].metrics = m]
  /\ ev' = Ev("srv_success", j)
  /\ UNCHANGED << selectedFile, isProcessing, taskId, params, optActive, attempts,
                  bestScore, history, chkAutoPilot, uiSeed, posts, intervals,
                  statusReqs, renderTimers, resultReqs, resubmitTimers, delivered,
                  clicks, overlaps >>
  /\ UNCHANGED deskVars
  /\ UNCHANGED << submitted, progressReplies >>
  /\ UNCHANGED labVars
  /\ UNCHANGED legacyVars

\* The engine gives a job up
ServerFails(j) ==
  /\ j \in 1..Len(srv)
  /\ srv[j].st = "RUN"
  /\ srv' = [srv EXCEPT ![j].st = "FAILURE"]
  /\ ev' = Ev("srv_failure", j)
  /\ UNCHANGED << selectedFile, isProcessing, taskId, params, optActive, attempts,
                  bestScore, history, chkAutoPilot, uiSeed, posts, intervals,
                  statusReqs, renderTimers, resultReqs, resubmitTimers, delivered,
                  clicks, overlaps >>
  /\ UNCHANGED deskVars
  /\ UNCHANGED << submitted, progressReplies >>
  /\ UNCHANGED labVars
  /\ UNCHANGED legacyVars

\* ================================== lab-image.js (v2.1) on api.js (v23.1)
\* The keys of the i18n dictionary the bridge itself looks up, with the text
\* of the loaded language.
Dictionary ==
  [k \in {"status_warmup", "status_calculating"} |->
     IF k = "status_warmup" THEN "Warming up" ELSE "Calculating"]

\* Status codes a worker sends: one the dictionary has, one it has not.
StatusCodes == {"status_calculating", "WORKER_STEP"}

\* Preview payloads of a PROGRESS answer: none, or an encoded image.
PreviewSamples == {"none", "jpeg"}

\* The progress objects a PROGRESS answer may carry.
ProgressPayloads ==
  [percent : 0..MaxPercent, status_text : StatusCodes, preview_b64 : PreviewSamples]

\* Nothing received, nothing handed to onProgress yet.
NoProgress ==
  [raw |-> [percent |-> 0, status_text |-> "", preview_b64 |-> "none"],
   arg |-> [percent |-> 0, status_text |-> "", preview_b64 |-> "none"]]

\* What onComplete was called with for a job: a materialized result (200), the
\* body of a 202 answer, or null.
NoCompletion == [result |-> 0, pending |-> 0, null |-> 0]

LabEv(op, job) == [op |-> op, job |-> job]

\* btnGenerate.onclick: the guard of the handler
LabSubmitGuard(file, proc) == file /\ ~proc

\* A file is dropped or picked in the lab
LabSelectFile ==
  /\ ~labSelectedFile
  /\ labSelectedFile' = TRUE
  /\ labEv' = LabEv("select_file", 0)
  /\ UNCHANGED << labIsProcessing, lastTaskId, labPosts, pollingIntervals,
                  labStatusReqs, labResultReqs, labSrv, labDelivered, labClicks,
                  labOverlaps >>
  /\ UNCHANGED << labProgress, appVars >>
  /\ UNCHANGED legacyVars

\* btnGenerate.onclick up to the await of postToGateway
BtnGenerateOnclick ==
  /\ IF LabSubmitGuard(labSelectedFile, labIsProcessing)
     THEN /\ labClicks < MaxClicks + 1
          /\ labIsProcessing' = TRUE
          /\ labPosts' = labPosts + 1
          /\ labClicks' = labClicks + 1
          /\ labEv' = LabEv("submit_sent", 0)
     ELSE /\ labEv' = LabEv("submit_rejected", 0)
          /\ UNCHANGED << labIsProcessing, labPosts, labClicks >>
  /\ UNCHANGED << labSelectedFile, lastTaskId, pollingIntervals, labStatusReqs,
                  labResultReqs, labSrv, labDelivered, labOverlaps >>
  /\ UNCHANGED << labProgress, appVars >>
  /\ UNCHANGED legacyVars

\* postToGateway returns {task_id}: state.lastTaskId is set and pollNeuralTask
\* starts an interval that keeps the task id
PostToGatewayAccepted ==
  /\ labPosts > 0
  /\ Len(labSrv) < MaxJobs + 1
  /\ labPosts' = labPosts - 1
  /\ labSrv' = Append(labSrv, [st |-> "RUN", ready |-> FALSE, percent |-> 0])
  /\ labDelivered' = Append(labDelivered, NoCompletion)
  /\ labProgress' = Append(labProgress, NoProgress)
  /\ lastTaskId' = Len(labSrv) + 1
  /\ pollingIntervals' = pollingIntervals \cup {Len(labSrv) + 1}
  /\ labEv' = LabEv("post_ok", Len(labSrv) + 1)
  /\ UNCHANGED << labSelectedFile, labIsProcessing, labStatusReqs, labResultReqs,
                  labClicks, labOverlaps >>
  /\ UNCHANGED appVars
  /\ UNCHANGED legacyVars

\* postToGateway returns null (a non-ok answer such as 429, or a transport
\* failure, both alerted) or a body without task_id: the else branch
PostToGatewayNull ==
  /\ labPosts > 0
  /\ labPosts' = labPosts - 1
  /\ labIsProcessing' = FALSE
  /\ labEv' = LabEv("post_null", 0)
  /\ UNCHANGED << labSelectedFile, lastTaskId, pollingIntervals, labStatusReqs,
                  labResultReqs, labSrv, labDelivered, labClicks, labOverlaps >>
  /\ UNCHANGED << labProgress, appVars >>
  /\ UNCHANGED legacyVars

\* A tick of the interval of pollNeuralTask: GET /status/{taskId}
PollingTick(j) ==
  /\ j \in pollingIntervals
  /\ labStatusReqs = EmptyBag \/ labOverlaps < MaxOverlaps
  /\ labOverlaps' = IF labStatusReqs = EmptyBag THEN labOverlaps ELSE labOverlaps + 1
  /\ labStatusReqs' = BagAdd(labStatusReqs, j)
  /\ labEv' = LabEv("tick_poll", j)
  /\ UNCHANGED << labSelectedFile, labIsProcessing, lastTaskId, labPosts,
                  pollingIntervals, labResultReqs, labSrv, labDelivered, labClicks >>
  /\ UNCHANGED << labProgress, appVars >>
  /\ UNCHANGED legacyVars

\* I18nEngine.translate: this.dictionary[key] || key
Translate(key) == IF key \in DOMAIN Dictionary THEN Dictionary[key] ELSE key

\* pollNeuralTask: the percentage handed to onProgress (0 is shown as 2)
ProgressPercent(raw) == IF raw.percent = 0 THEN 2 ELSE raw.percent

\* pollNeuralTask: the status text handed to onProgress
ProgressStatusText(raw) ==
  IF raw.percent = 0 THEN Translate("status_warmup") ELSE Translate(raw.status_text)

\* pollNeuralTask: the object handed to onProgress, { percent, status_text,
\* eta }; it has no preview_b64 property
OnProgressArg(raw) ==
  [percent |-> ProgressPercent(raw), status_text |-> ProgressStatusText(raw),
   preview_b64 |-> "none"]

\* GET /status answered PROGRESS with the progress object raw: onProgress,
\* the interval goes on
LabStatusProgress(j, raw) ==
  /\ j \in BagToSet(labStatusReqs)
  /\ labSrv[j].st = "RUN"
  /\ raw.percent = labSrv[j].percent
  /\ labStatusReqs' = BagRemove(labStatusReqs, j)
  /\ labProgress' = [labProgress EXCEPT ![j] = [raw |-> raw, arg |-> OnProgressArg(raw)]]
  /\ labEv' = LabEv("st_progress", j)
  /\ UNCHANGED << labSelectedFile, labIsProcessing, lastTaskId, labPosts,
                  pollingIntervals, labResultReqs, labSrv, labDelivered, labClicks,
                  labOverlaps >>
  /\ UNCHANGED appVars
  /\ UNCHANGED legacyVars

\* GET /status answered SUCCESS: clearInterval, GET /result/{taskId}
LabStatusSuccess(j) ==
  /\ j \in BagToSet(labStatusReqs)
  /\ labSrv[j].st = "SUCCESS"
  /\ labStatusReqs' = BagRemove(labStatusReqs, j)
  /\ pollingIntervals' = pollingIntervals \ {j}
  /\ labResultReqs' = BagAdd(labResultReqs, j)
  /\ labEv' = LabEv("st_success", j)
  /\ UNCHANGED << labSelectedFile, labIsProcessing, lastTaskId, labPosts, labSrv,
                  labDelivered, labClicks, labOverlaps >>
  /\ UNCHANGED << labProgress, appVars >>
  /\ UNCHANGED legacyVars

\* The completion callback of btnGenerate.onclick: the lock is released
OnComplete == labIsProcessing' = FALSE

\* GET /status answered FAILURE: clearInterval, alert, onComplete(null)
LabStatusFailure(j) ==
  /\ j \in BagToSet(labStatusReqs)
  /\ labSrv[j].st = "FAILURE"
  /\ labStatusReqs' = BagRemove(labStatusReqs, j)
  /\ pollingIntervals' = pollingIntervals \ {j}
  /\ OnComplete
  /\ labDelivered' = [labDelivered EXCEPT ![j].null = @ + 1]
  /\ labEv' = LabEv("st_failure", j)
  /\ UNCHANGED << labSelectedFile, lastTaskId, labPosts, labResultReqs, labSrv,
                  labClicks, labOverlaps >>
  /\ UNCHANGED << labProgress, appVars >>
  /\ UNCHANGED legacyVars

\* GET /status fails in transport or its body is no JSON: the catch only logs
LabStatusError(j) ==
  /\ j \in BagToSet(labStatusReqs)
  /\ labStatusReqs' = BagRemove(labStatusReqs, j)
  /\ labEv' = LabEv("st_err", j)
  /\ UNCHANGED << labSelectedFile, labIsProcessing, lastTaskId, labPosts,
                  pollingIntervals, labResultReqs, labSrv, labDelivered, labClicks,
                  labOverlaps >>
  /\ UNCHANGED << labProgress, appVars >>
  /\ UNCHANGED legacyVars

\* GET /result answered 200: resultResponse.ok, onComplete(resultData)
LabResultReady(j) ==
  /\ j \in BagToSet(labResultReqs)
  /\ labSrv[j].ready
  /\ labResultReqs' = BagRemove(labResultReqs, j)
  /\ OnComplete
  /\ labDelivered' = [labDelivered EXCEPT ![j].result = @ + 1]
  /\ labEv' = LabEv("res_200", j)
  /\ UNCHANGED << labSelectedFile, lastTaskId, labPosts, pollingIntervals,
                  labStatusReqs, labSrv, labClicks, labOverlaps >>
  /\ UNCHANGED << labProgress, appVars >>
  /\ UNCHANGED legacyVars

\* GET /result answered 202 (not materialized yet): resultResponse.ok is true
\* for every 2xx, so onComplete is called with the body of the 202
LabResultPending(j) ==
  /\ j \in BagToSet(labResultReqs)
  /\ ~labSrv[j].ready
  /\ labResultReqs' = BagRemove(labResultReqs, j)
  /\ OnComplete
  /\ labDelivered' = [labDelivered EXCEPT ![j].pending = @ + 1]
  /\ labEv' = LabEv("res_202", j)
  /\ UNCHANGED << labSelectedFile, lastTaskId, labPosts, pollingIntervals,
                  labStatusReqs, labSrv, labClicks, labOverlaps >>
  /\ UNCHANGED << labProgress, appVars >>
  /\ UNCHANGED legacyVars

\* GET /result answered with a non-ok status, or failing in transport (the
\* catch only logs): nothing is called
LabResultError(j) ==
  /\ j \in BagToSet(labResultReqs)
  /\ labResultReqs' = BagRemove(labResultReqs, j)
  /\ labEv' = LabEv("res_err", j)
  /\ UNCHANGED << labSelectedFile, labIsProcessing, lastTaskId, labPosts,
                  pollingIntervals, labStatusReqs, labSrv, labDelivered, labClicks,
                  labOverlaps >>
  /\ UNCHANGED << labProgress, appVars >>
  /\ UNCHANGED legacyVars

\* The worker finishes a job of the lab
LabServerSucceeds(j) ==
  /\ labSrv[j].st = "RUN"
  /\ labSrv' = [labSrv EXCEPT ![j].st = "SUCCESS"]
  /\ labEv' = LabEv("srv_success", j)
  /\ UNCHANGED << labSelectedFile, labIsProcessing, lastTaskId, labPosts,
                  pollingIntervals, labStatusReqs, labResultReqs, labDelivered,
                  labClicks, labOverlaps >>
  /\ UNCHANGED << labProgress, appVars >>
  /\ UNCHANGED legacyVars

\* The worker reports a higher percentage for a running job
LabServerAdvances(j) ==
  /\ labSrv[j].st = "RUN"
  /\ labSrv[j].percent < MaxPercent
  /\ labSrv' = [labSrv EXCEPT ![j].percent = @ + 1]
  /\ labEv' = LabEv("srv_percent", j)
  /\ UNCHANGED << labSelectedFile, labIsProcessing, lastTaskId, labPosts,
                  pollingIntervals, labStatusReqs, labResultReqs, labDelivered,
                  labProgress, labClicks, labOverlaps >>
  /\ UNCHANGED appVars
  /\ UNCHANGED legacyVars

\* The result of a finished job becomes available to GET /result
LabServerMaterializes(j) ==
  /\ labSrv[j].st = "SUCCESS"
  /\ ~labSrv[j].ready
  /\ labSrv' = [labSrv EXCEPT ![j].ready = TRUE]
  /\ labEv' = LabEv("srv_ready", j)
  /\ UNCHANGED << labSelectedFile, labIsProcessing, lastTaskId, labPosts,
                  pollingIntervals, labStatusReqs, labResultReqs, labDelivered,
                  labClicks, labOverlaps >>
  /\ UNCHANGED << labProgress, appVars >>
  /\ UNCHANGED legacyVars

\* The worker fails a job of the lab
LabServerFails(j) ==
  /\ labSrv[j].st = "RUN"
  /\ labSrv' = [labSrv EXCEPT ![j].st = "FAILURE"]
  /\ labEv' = LabEv("srv_failure", j)
  /\ UNCHANGED << labSelectedFile, labIsProcessing, lastTaskId, labPosts,
                  pollingIntervals, labStatusReqs, labResultReqs, labDelivered,
                  labClicks, labOverlaps >>
  /\ UNCHANGED << labProgress, appVars >>
  /\ UNCHANGED legacyVars

\* =============================================== app.js v16.2.1 (part_003)
\* The research controller before the adaptive search: one job at a time,
\* no session.  Only startFusingSequence writes state.isProcessing.
LegacyEv(op) == [op |-> op]

LegacyInit ==
  /\ legacySelectedFile = FALSE
  /\ legacyIsProcessing = FALSE
  /\ legacyTaskId = 0
  /\ legacyLocked = FALSE
  /\ legacyPosts = 0
  /\ legacyAnalyzeReqs = 0
  /\ legacyInterval = FALSE
  /\ legacyStatusReqs = 0
  /\ legacyResultReqs = 0
  /\ legacySrv = "NONE"
  /\ legacyOverlaps = 0
  /\ legacyEv = LegacyEv("init")

\* toggleControls(locked) of v16.2.1: the two buttons, nothing of state
LegacyToggleControls(locked) == legacyLocked' = locked

\* fileInput 'change'
LegacySelectFile ==
  /\ ~legacySelectedFile
  /\ legacySelectedFile' = TRUE
  /\ legacyEv' = LegacyEv("select_file")
  /\ UNCHANGED << legacyIsProcessing, legacyTaskId, legacyLocked, legacyPosts,
                  legacyAnalyzeReqs, legacyInterval, legacyStatusReqs,
                  legacyResultReqs, legacySrv, legacyOverlaps >>
  /\ UNCHANGED << appVars, labVars >>

\* btnGenerate 'click' (the button is enabled): startFusingSequence up to the
\* fetch, or its early return
LegacyStartFusingSequence ==
  /\ ~legacyLocked
  /\ IF legacySelectedFile /\ ~legacyIsProcessing
     THEN /\ legacyIsProcessing' = TRUE
          /\ LegacyToggleControls(TRUE)
          /\ legacyPosts' = legacyPosts + 1
          /\ legacyEv' = LegacyEv("submit_sent")
     ELSE /\ UNCHANGED << legacyIsProcessing, legacyLocked, legacyPosts >>
          /\ legacyEv' = LegacyEv("submit_rejected")
  /\ UNCHANGED << legacySelectedFile, legacyTaskId, legacyAnalyzeReqs, legacyInterval,
                  legacyStatusReqs, legacyResultReqs, legacySrv, legacyOverlaps >>
  /\ UNCHANGED << appVars, labVars >>

\* btnAnalyze 'click' (the button is enabled): executeDNAAnalysis up to the
\* fetch, or its early return
LegacyExecuteDNAAnalysis ==
  /\ ~legacyLocked
  /\ legacyAnalyzeReqs < MaxClicks
  /\ IF legacySelectedFile /\ ~legacyIsProcessing
     THEN /\ legacyAnalyzeReqs' = legacyAnalyzeReqs + 1
          /\ legacyEv' = LegacyEv("analyze_sent")
     ELSE /\ legacyAnalyzeReqs' = legacyAnalyzeReqs
          /\ legacyEv' = LegacyEv("analyze_rejected")
  /\ UNCHANGED << legacySelectedFile, legacyIsProcessing, legacyTaskId, legacyLocked,
                  legacyPosts, legacyInterval, legacyStatusReqs, legacyResultReqs,
                  legacySrv, legacyOverlaps >>
  /\ UNCHANGED << appVars, labVars >>

\* POST /analyze is answered or fails: sliders and the tag line only
LegacyAnalyzeAnswered ==
  /\ legacyAnalyzeReqs > 0
  /\ legacyAnalyzeReqs' = legacyAnalyzeReqs - 1
  /\ legacyEv' = LegacyEv("analyze_done")
  /\ UNCHANGED << legacySelectedFile, legacyIsProcessing, legacyTaskId, legacyLocked,
                  legacyPosts, legacyInterval, legacyStatusReqs, legacyResultReqs,
                  legacySrv, legacyOverlaps >>
  /\ UNCHANGED << appVars, labVars >>

\* POST /transform answered 429: alert, toggleControls(false)
LegacyPostBusy ==
  /\ legacyPosts > 0
  /\ legacyPosts' = legacyPosts - 1
  /\ LegacyToggleControls(FALSE)
  /\ legacyEv' = LegacyEv("post_429")
  /\ UNCHANGED << legacySelectedFile, legacyIsProcessing, legacyTaskId,
                  legacyAnalyzeReqs, legacyInterval, legacyStatusReqs,
                  legacyResultReqs, legacySrv, legacyOverlaps >>
  /\ UNCHANGED << appVars, labVars >>

\* POST /transform fails in transport or its body does not parse: catch
LegacyPostFailed ==
  /\ legacyPosts > 0
  /\ legacyPosts' = legacyPosts - 1
  /\ LegacyToggleControls(FALSE)
  /\ legacyEv' = LegacyEv("post_err")
  /\ UNCHANGED << legacySelectedFile, legacyIsProcessing, legacyTaskId,
                  legacyAnalyzeReqs, legacyInterval, legacyStatusReqs,
                  legacyResultReqs, legacySrv, legacyOverlaps >>
  /\ UNCHANGED << appVars, labVars >>

\* POST /transform accepted: state.taskId is set, the poller starts
LegacyPostAccepted ==
  /\ legacyPosts > 0
  /\ legacySrv = "NONE"
  /\ legacyPosts' = legacyPosts - 1
  /\ legacySrv' = "RUN"
  /\ legacyTaskId' = 1
  /\ legacyInterval' = TRUE
  /\ legacyEv' = LegacyEv("post_ok")
  /\ UNCHANGED << legacySelectedFile, legacyIsProcessing, legacyLocked,
                  legacyAnalyzeReqs, legacyStatusReqs, legacyResultReqs,
                  legacyOverlaps >>
  /\ UNCHANGED << appVars, labVars >>

\* POST /transform answered with a body without task_id: state.taskId is
\* undefined, the poller starts all the same
LegacyPostNoTaskId ==
  /\ legacyPosts > 0
  /\ legacyPosts' = legacyPosts - 1
  /\ legacyTaskId' = 0
  /\ legacyInterval' = TRUE
  /\ legacyEv' = LegacyEv("post_notask")
  /\ UNCHANGED << legacySelectedFile, legacyIsProcessing, legacyLocked,
                  legacyAnalyzeReqs, legacyStatusReqs, legacyResultReqs, legacySrv,
                  legacyOverlaps >>
  /\ UNCHANGED << appVars, labVars >>

\* One tick of the poller: GET /status/{state.taskId}, whatever is outstanding
LegacyIntervalTick ==
  /\ legacyInterval
  /\ legacyStatusReqs = 0 \/ legacyOverlaps < MaxOverlaps
  /\ legacyStatusReqs' = legacyStatusReqs + 1
  /\ legacyOverlaps' = IF legacyStatusReqs > 0 THEN legacyOverlaps + 1 ELSE legacyOverlaps
  /\ legacyEv' = LegacyEv("tick_poll")
  /\ UNCHANGED << legacySelectedFile, legacyIsProcessing, legacyTaskId, legacyLocked,
                  legacyPosts, legacyAnalyzeReqs, legacyInterval, legacyResultReqs,
                  legacySrv >>
  /\ UNCHANGED << appVars, labVars >>

\* GET /status answered PROGRESS, or with a body that has none of the three
\* statuses (no such task): the display only
LegacyStatusProgress ==
  /\ legacyStatusReqs > 0
  /\ legacySrv \in {"RUN", "NONE"}
  /\ legacyStatusReqs' = legacyStatusReqs - 1
  /\ legacyEv' = LegacyEv("st_progress")
  /\ UNCHANGED << legacySelectedFile, legacyIsProcessing, legacyTaskId, legacyLocked,
                  legacyPosts, legacyAnalyzeReqs, legacyInterval, legacyResultReqs,
                  legacySrv, legacyOverlaps >>
  /\ UNCHANGED << appVars, labVars >>

\* GET /status answered SUCCESS: clearInterval, renderFinalMasterwork fetches
LegacyStatusSuccess ==
  /\ legacyStatusReqs > 0
  /\ legacySrv = "SUCCESS"
  /\ legacyStatusReqs' = legacyStatusReqs - 1
  /\ legacyInterval' = FALSE
  /\ legacyResultReqs' = legacyResultReqs + 1
  /\ legacyEv' = LegacyEv("st_success")
  /\ UNCHANGED << legacySelectedFile, legacyIsProcessing, legacyTaskId, legacyLocked,
                  legacyPosts, legacyAnalyzeReqs, legacySrv, legacyOverlaps >>
  /\ UNCHANGED << appVars, labVars >>

\* GET /status answered FAILURE: clearInterval, alert, toggleControls(false)
LegacyStatusFailure ==
  /\ legacyStatusReqs > 0
  /\ legacySrv = "FAILURE"
  /\ legacyStatusReqs' = legacyStatusReqs - 1
  /\ legacyInterval' = FALSE
  /\ LegacyToggleControls(FALSE)
  /\ legacyEv' = LegacyEv("st_failure")
  /\ UNCHANGED << legacySelectedFile, legacyIsProcessing, legacyTaskId, legacyPosts,
                  legacyAnalyzeReqs, legacyResultReqs, legacySrv, legacyOverlaps >>
  /\ UNCHANGED << appVars, labVars >>

\* GET /status fails in transport or does not parse: catch
LegacyStatusError ==
  /\ legacyStatusReqs > 0
  /\ legacyStatusReqs' = legacyStatusReqs - 1
  /\ legacyInterval' = FALSE
  /\ LegacyToggleControls(FALSE)
  /\ legacyEv' = LegacyEv("st_err")
  /\ UNCHANGED << legacySelectedFile, legacyIsProcessing, legacyTaskId, legacyPosts,
                  legacyAnalyzeReqs, legacyResultReqs, legacySrv, legacyOverlaps >>
  /\ UNCHANGED << appVars, labVars >>

\* renderFinalMasterwork after its fetch: the result is shown (ok) or the
\* error is logged, and finally toggleControls(false)
LegacyRenderFinalMasterwork(ok) ==
  /\ legacyResultReqs > 0
  /\ legacyResultReqs' = legacyResultReqs - 1
  /\ LegacyToggleControls(FALSE)
  /\ legacyEv' = LegacyEv(IF ok THEN "res_done" ELSE "res_err")
  /\ UNCHANGED << legacySelectedFile, legacyIsProcessing, legacyTaskId, legacyPosts,
                  legacyAnalyzeReqs, legacyInterval, legacyStatusReqs, legacySrv,
                  legacyOverlaps >>
  /\ UNCHANGED << appVars, labVars >>

\* The engine finishes the job (ok) or gives it up
LegacyServerEnds(ok) ==
  /\ legacySrv = "RUN"
  /\ legacySrv' = IF ok THEN "SUCCESS" ELSE "FAILURE"
  /\ legacyEv' = LegacyEv("srv_end")
  /\ UNCHANGED << legacySelectedFile, legacyIsProcessing, legacyTaskId, legacyLocked,
                  legacyPosts, legacyAnalyzeReqs, legacyInterval, legacyStatusReqs,
                  legacyResultReqs, legacyOverlaps >>
  /\ UNCHANGED << appVars, labVars >>

NextLegacy ==
  \/ LegacySelectFile
  \/ LegacyStartFusingSequence
  \/ LegacyExecuteDNAAnalysis
  \/ LegacyAnalyzeAnswered
  \/ LegacyPostBusy
  \/ LegacyPostFailed
  \/ LegacyPostAccepted
  \/ LegacyPostNoTaskId
  \/ LegacyIntervalTick
  \/ LegacyStatusProgress
  \/ LegacyStatusSuccess
  \/ LegacyStatusFailure
  \/ LegacyStatusError
  \/ \E ok \in BOOLEAN : LegacyRenderFinalMasterwork(ok)
  \/ \E ok \in BOOLEAN : LegacyServerEnds(ok)

\* ================================================================= system
AppInit ==
  /\ selectedFile = FALSE
  /\ isProcessing = FALSE
  /\ taskId = 0
  /\ params = DefaultParams
  /\ optActive = FALSE
  /\ attempts = 0
  /\ bestScore = 0
  /\ history = << >>
  /\ chkAutoPilot = FALSE
  /\ uiSeed = DefaultSeed
  /\ posts = EmptyBag
  /\ intervals = {}
  /\ statusReqs = EmptyBag
  /\ renderTimers = 0
  /\ resultReqs = EmptyBag
  /\ resubmitTimers = 0
  /\ srv = << >>
  /\ delivered = << >>
  /\ clicks = 0
  /\ submitted = 0
  /\ overlaps = 0
  /\ progressReplies = EmptyBag
  /\ ev = Ev("init", 0)
  /\ DeskInit

LabInit ==
  /\ labSelectedFile = FALSE
  /\ labIsProcessing = FALSE
  /\ lastTaskId = 0
  /\ labPosts = 0
  /\ pollingIntervals = {}
  /\ labStatusReqs = EmptyBag
  /\ labResultReqs = EmptyBag
  /\ labSrv = << >>
  /\ labDelivered = << >>
  /\ labProgress = << >>
  /\ labClicks = 0
  /\ labOverlaps = 0
  /\ labEv = LabEv("init", 0)

Init == AppInit /\ LabInit /\ LegacyInit

Next ==
  \/ SelectFile
  \/ \E ap \in BOOLEAN : InitializeFusion(ap)
  \/ \E p \in BagToSet(posts) : PostBusy(p)
  \/ \E p \in BagToSet(posts) : PostFailed(p)
  \/ \E p \in BagToSet(posts) : PostAccepted(p, MaxJobs)
  \/ \E p \in BagToSet(posts) : PostNoTaskId(p)
  \/ \E iv \in intervals : IntervalTick(iv)
  \/ \E q \in BagToSet(statusReqs) : StatusProgress(q)
  \/ \E q \in BagToSet(statusReqs) : StatusSuccess(q)
  \/ \E q \in BagToSet(statusReqs) : StatusFailure(q)
  \/ \E q \in BagToSet(statusReqs) : StatusError(q)
  \/ RenderTimerFires
  \/ \E j \in BagToSet(resultReqs) : ResultPending(j)
  \/ \E j \in BagToSet(resultReqs) : ResultReady(j)
  \/ \E j \in BagToSet(resultReqs) : ResultError(j)
  \/ ResubmitTimerFires
  \/ \E j \in 1..Len(srv), m \in MetricSamples : ServerSucceeds(j, m)
  \/ \E j \in 1..Len(srv) : ServerFails(j)

Spec == Init /\ [][Next]_vars

\* The requests of the controller are answered in the end: a fetch settles
\* with a response or rejects.
PostAnswered ==
  \E p \in BagToSet(posts) :
    PostBusy(p) \/ PostFailed(p) \/ PostAccepted(p, MaxJobs) \/ PostNoTaskId(p)

StatusAnswered ==
  \E q \in BagToSet(statusReqs) :
    StatusProgress(q) \/ StatusSuccess(q) \/ StatusFailure(q) \/ StatusError(q)

ResultAnswered ==
  \E j \in BagToSet(resultReqs) : ResultPending(j) \/ ResultReady(j) \/ ResultError(j)

\* The timers of the event loop fire: setInterval ticks, setTimeout callbacks.
PollerTicks == \E iv \in intervals : IntervalTick(iv)

\* The controller under the scheduling of the browser: every pending timer
\* fires and every request is answered; the worker may never finish a job.
SpecFair ==
  /\ Init /\ [][Next]_vars
  /\ WF_vars(PostAnswered)
  /\ WF_vars(StatusAnswered)
  /\ WF_vars(ResultAnswered)
  /\ WF_vars(PollerTicks)
  /\ WF_vars(RenderTimerFires)
  /\ WF_vars(ResubmitTimerFires)

\* The same controller against a remote API that accepts two more jobs.
NextDeep ==
  \/ SelectFile
  \/ \E ap \in BOOLEAN : InitializeFusion(ap)
  \/ \E p \in BagToSet(posts) : PostBusy(p)
  \/ \E p \in BagToSet(posts) : PostFailed(p)
  \/ \E p \in BagToSet(posts) : PostAccepted(p, MaxJobs + 2)
  \/ \E p \in BagToSet(posts) : PostNoTaskId(p)
  \/ \E iv \in intervals : IntervalTick(iv)
  \/ \E q \in BagToSet(statusReqs) : StatusProgress(q)
  \/ \E q \in BagToSet(statusReqs) : StatusSuccess(q)
  \/ \E q \in BagToSet(statusReqs) : StatusFailure(q)
  \/ \E q \in BagToSet(statusReqs) : StatusError(q)
  \/ RenderTimerFires
  \/ \E j \in BagToSet(resultReqs) : ResultPending(j)
  \/ \E j \in BagToSet(resultReqs) : ResultReady(j)
  \/ \E j \in BagToSet(resultReqs) : ResultError(j)
  \/ ResubmitTimerFires
  \/ \E j \in 1..Len(srv), m \in MetricSamples : ServerSucceeds(j, m)
  \/ \E j \in 1..Len(srv) : ServerFails(j)

SpecDeep == Init /\ [][NextDeep]_vars

\* ------------------------------------------- the mutation rule on its own
\* ParameterSets the sliders can hold when a session starts: the ends and the
\* middle of each range, and values next to each clamp of the rule.
ParameterSets ==
  [cn_depth : {20, DefaultDepth, DepthMax - DepthStep - 1, DepthMax - 1, DepthMax},
   cn_pose : {20, DefaultPose, 80},
   strength : {40, StrengthMin - 1, StrengthMin + 1, DefaultStrength,
               StrengthMax - 1, StrengthMax, 100},
   negative_prompt : {DefaultNegativePrompt},
   seed : {DefaultSeed}]

\* Metrics of results on which the loop continues: on both sides of each
\* floor of the rule, with a score below the target.
ContinueMetrics ==
  { m \in [ssim : {SsimFloor - 1, SsimFloor}, idp : {IdFloor - 1, IdFloor, 93},
            inference_time : InferenceTimes] :
      ~StopDecision(CurrentScore2(m), 1) }

InitOpt ==
  /\ selectedFile = TRUE
  /\ isProcessing = TRUE
  /\ taskId = 0
  /\ params \in ParameterSets
  /\ optActive = TRUE
  /\ attempts = 0
  /\ bestScore = 0
  /\ history = << >>
  /\ chkAutoPilot = TRUE
  /\ uiSeed = DefaultSeed
  /\ posts = EmptyBag
  /\ intervals = {}
  /\ statusReqs = EmptyBag
  /\ renderTimers = 0
  /\ resultReqs = EmptyBag
  /\ resubmitTimers = 0
  /\ srv = << >>
  /\ delivered = << >>
  /\ clicks = 0
  /\ submitted = 0
  /\ overlaps = 0
  /\ progressReplies = EmptyBag
  /\ ev = Ev("init", 0)
  /\ DeskInit
  /\ LabInit
  /\ LegacyInit

\* handleOptimizationLoop, lines 317-322: the adaptive sampling applied to
\* the parameters in use, for a result with metrics m and the seed draw s
AdaptiveSampling(m, s) ==
  /\ params' = Mutate(params, m, s)
  /\ ev' = [op |-> "mutate", job |-> 0, auto |-> FALSE, metrics |-> m]
  /\ UNCHANGED << selectedFile, isProcessing, taskId, optActive, attempts,
                  bestScore, history, chkAutoPilot, uiSeed, posts, intervals,
                  statusReqs, renderTimers, resultReqs, resubmitTimers, srv,
                  delivered, clicks, overlaps >>
  /\ UNCHANGED deskVars
  /\ UNCHANGED << submitted, progressReplies >>
  /\ UNCHANGED labVars
  /\ UNCHANGED legacyVars

NextOpt == \E m \in ContinueMetrics, s \in SeedSamples : AdaptiveSampling(m, s)

SpecOpt == InitOpt /\ [][NextOpt]_vars

\* ------------------------------------------ a session close to its budget
\* Metrics of the earlier results of the session: below the target.
EarlierMetrics == [ssim |-> 85, idp |-> 88, inference_time |-> 12]

\* The parameters of the session after k results with EarlierMetrics.
RECURSIVE ParamsAfter(_)
ParamsAfter(k) ==
  IF k = 0
  THEN DefaultParams
  ELSE Mutate(ParamsAfter(k - 1), EarlierMetrics, SeedModulus - 1)

\* Results the session has handled already when the run starts.
SessionAttempts == {maxAttempts - 2, maxAttempts - 1}

\* An autopilot session after a results below the target, one job each, with
\* job a + 1 accepted and its poller started.
InitSession ==
  \E a \in SessionAttempts :
    /\ selectedFile = TRUE
    /\ isProcessing = TRUE
    /\ taskId = a + 1
    /\ params = ParamsAfter(a)
    /\ optActive = TRUE
    /\ attempts = a
    /\ bestScore = CurrentScore2(EarlierMetrics)
    /\ history = [i \in 1..a |-> [id |-> i, metrics |-> EarlierMetrics,
                                   params |-> ParamsAfter(i - 1)]]
    /\ chkAutoPilot = TRUE
    /\ uiSeed = DefaultSeed
    /\ posts = EmptyBag
    /\ intervals = {1}
    /\ statusReqs = EmptyBag
    /\ renderTimers = 0
    /\ resultReqs = EmptyBag
    /\ resubmitTimers = 0
    /\ srv = [i \in 1..(a + 1) |->
               IF i <= a
               THEN [st |-> "SUCCESS", metrics |-> EarlierMetrics,
                     params |-> ParamsAfter(i - 1), fields |-> DefaultFields,
                     auto |-> i > 1]
               ELSE [st |-> "RUN", metrics |-> NoMetrics, params |-> ParamsAfter(a),
                     fields |-> DefaultFields, auto |-> TRUE]]
    /\ delivered = [i \in 1..(a + 1) |->
                     IF i <= a THEN [ok |-> 1, fail |-> 0, err |-> 0] ELSE NoOutcome]
    /\ clicks = MaxClicks
    /\ submitted = a + 1
    /\ overlaps = 0
    /\ progressReplies = EmptyBag
    /\ ev = Ev("post_ok", a + 1)
    /\ uiSliders = DefaultSliders
    /\ promptInput = "initial"
    /\ renderSliders = DefaultRender
    /\ essenceTag = "initial"
    /\ displayed = [id |-> a, metrics |-> EarlierMetrics, params |-> ParamsAfter(a - 1)]
    /\ analyzeReqs = 0
    /\ deskOps = 0
    /\ LabInit
    /\ LegacyInit

NextSession ==
  \/ \E ap \in BOOLEAN : InitializeFusion(ap)
  \/ \E p \in BagToSet(posts) : PostBusy(p)
  \/ \E p \in BagToSet(posts) : PostFailed(p)
  \/ \E p \in BagToSet(posts) : PostAccepted(p, maxAttempts)
  \/ \E p \in BagToSet(posts) : PostNoTaskId(p)
  \/ \E iv \in intervals : IntervalTick(iv)
  \/ \E q \in BagToSet(statusReqs) : StatusProgress(q)
  \/ \E q \in BagToSet(statusReqs) : StatusSuccess(q)
  \/ \E q \in BagToSet(statusReqs) : StatusFailure(q)
  \/ \E q \in BagToSet(statusReqs) : StatusError(q)
  \/ RenderTimerFires
  \/ \E j \in BagToSet(resultReqs) : ResultPending(j)
  \/ \E j \in BagToSet(resultReqs) : ResultReady(j)
  \/ \E j \in BagToSet(resultReqs) : ResultError(j)
  \/ ResubmitTimerFires
  \/ \E j \in 1..Len(srv), m \in MetricSamples : ServerSucceeds(j, m)
  \/ \E j \in 1..Len(srv) : ServerFails(j)

SpecSession == InitSession /\ [][NextSession]_vars

\* The session left to itself: ticks, answers, timers and the engine, and no
\* click on generate.
NextLoop ==
  \/ \E p \in BagToSet(posts) : PostBusy(p)
  \/ \E p \in BagToSet(posts) : PostFailed(p)
  \/ \E p \in BagToSet(posts) : PostAccepted(p, maxAttempts)
  \/ \E p \in BagToSet(posts) : PostNoTaskId(p)
  \/ \E iv \in intervals : IntervalTick(iv)
  \/ \E q \in BagToSet(statusReqs) : StatusProgress(q)
  \/ \E q \in BagToSet(statusReqs) : StatusSuccess(q)
  \/ \E q \in BagToSet(statusReqs) : StatusFailure(q)
  \/ \E q \in BagToSet(statusReqs) : StatusError(q)
  \/ RenderTimerFires
  \/ \E j \in BagToSet(resultReqs) : ResultPending(j)
  \/ \E j \in BagToSet(resultReqs) : ResultReady(j)
  \/ \E j \in BagToSet(resultReqs) : ResultError(j)
  \/ ResubmitTimerFires
  \/ \E j \in 1..Len(srv), m \in MetricSamples : ServerSucceeds(j, m)
  \/ \E j \in 1..Len(srv) : ServerFails(j)

SpecLoop == InitSession /\ [][NextLoop]_vars

\* The lab page: lab-image.js on api.js
\* ------------------------------------------ the desk: analysis and the user
\* What POST /analyze recommends for the asset.
Recommendations ==
  { [cn_scale_depth |-> 60, cn_scale_pose |-> 50, strength |-> 65,
     negative_prompt |-> "recommended negative", texture_prompt |-> "recommended texture"] }

\* The app.js variables that the analysis and the user at the desk leave alone.
DeskFrame ==
  << selectedFile, isProcessing, taskId, optActive, attempts, bestScore, history,
     chkAutoPilot, uiSeed, posts, intervals, statusReqs, renderTimers, resultReqs,
     resubmitTimers, srv, delivered, clicks, submitted, overlaps, progressReplies >>

\* btnAnalyze 'click' with an asset present and the lock free
ExecuteDNAAnalysis ==
  /\ deskOps < MaxDeskOps
  /\ selectedFile /\ ~isProcessing
  /\ essenceTag' = "SEQUENCING DNA..."
  /\ analyzeReqs' = analyzeReqs + 1
  /\ deskOps' = deskOps + 1
  /\ ev' = Ev("analyze_sent", 0)
  /\ UNCHANGED << params, uiSliders, promptInput, renderSliders, displayed >>
  /\ UNCHANGED DeskFrame
  /\ UNCHANGED labVars
  /\ UNCHANGED legacyVars

\* POST /analyze answers with status 'success' and the recommendations r
AnalyzeSuccess(r) ==
  /\ analyzeReqs > 0
  /\ analyzeReqs' = analyzeReqs - 1
  /\ params' = [cn_depth |-> r.cn_scale_depth, cn_pose |-> r.cn_scale_pose,
                strength |-> r.strength, negative_prompt |-> r.negative_prompt,
                seed |-> uiSeed]
  /\ uiSliders' = [cn_depth |-> r.cn_scale_depth, cn_pose |-> r.cn_scale_pose,
                   strength |-> r.strength]
  /\ promptInput' = r.texture_prompt
  /\ essenceTag' = "STRATEGY"
  /\ ev' = Ev("analyze_ok", 0)
  /\ UNCHANGED << renderSliders, displayed, deskOps >>
  /\ UNCHANGED DeskFrame
  /\ UNCHANGED labVars
  /\ UNCHANGED legacyVars

\* POST /analyze answers with another status: nothing is taken over
AnalyzeRefused ==
  /\ analyzeReqs > 0
  /\ analyzeReqs' = analyzeReqs - 1
  /\ ev' = Ev("analyze_refused", 0)
  /\ UNCHANGED << params, uiSliders, promptInput, renderSliders, essenceTag,
                  displayed, deskOps >>
  /\ UNCHANGED DeskFrame
  /\ UNCHANGED labVars
  /\ UNCHANGED legacyVars

\* POST /analyze fails in transport or its body does not parse: catch
AnalyzeError ==
  /\ analyzeReqs > 0
  /\ analyzeReqs' = analyzeReqs - 1
  /\ essenceTag' = "OFFLINE: Analysis Failure."
  /\ ev' = Ev("analyze_err", 0)
  /\ UNCHANGED << params, uiSliders, promptInput, renderSliders, displayed, deskOps >>
  /\ UNCHANGED DeskFrame
  /\ UNCHANGED labVars
  /\ UNCHANGED legacyVars

\* The user types into the feature prompt; toggleControls never disables it.
UserTypesPrompt ==
  /\ deskOps < MaxDeskOps
  /\ promptInput # "edited"
  /\ promptInput' = "edited"
  /\ deskOps' = deskOps + 1
  /\ ev' = Ev("user_prompt", 0)
  /\ UNCHANGED << params, uiSliders, renderSliders, essenceTag, displayed, analyzeReqs >>
  /\ UNCHANGED DeskFrame
  /\ UNCHANGED labVars
  /\ UNCHANGED legacyVars

\* The user moves the resolution, steps or cfg slider f.
UserMovesSlider(f) ==
  /\ deskOps < MaxDeskOps
  /\ renderSliders[f] # "moved"
  /\ renderSliders' = [renderSliders EXCEPT ![f] = "moved"]
  /\ deskOps' = deskOps + 1
  /\ ev' = Ev("user_slider", 0)
  /\ UNCHANGED << params, uiSliders, promptInput, essenceTag, displayed, analyzeReqs >>
  /\ UNCHANGED DeskFrame
  /\ UNCHANGED labVars
  /\ UNCHANGED legacyVars

\* state.optimization.history.find(c => c.id === id): the first entry with
\* that identifier
Find(h, id) ==
  h[CHOOSE i \in 1..Len(h) :
      /\ h[i].id = id
      /\ \A k \in 1..(i - 1) : h[k].id # id]

\* A gallery click that also takes the parameters of the candidate over.
WrapperOnclick_LoadsParams(i) ==
  /\ deskOps < MaxDeskOps
  /\ i \in 1..Len(history)
  /\ displayed' = DisplayCandidate(Find(history, history[i].id))
  /\ params' = Find(history, history[i].id).params
  /\ deskOps' = deskOps + 1
  /\ ev' = Ev("display", i)
  /\ UNCHANGED << uiSliders, promptInput, renderSliders, essenceTag, analyzeReqs >>
  /\ UNCHANGED DeskFrame
  /\ UNCHANGED labVars
  /\ UNCHANGED legacyVars

\* wrapper.onclick of the gallery item made for the i-th recorded candidate
WrapperOnclick(i) ==
  /\ deskOps < MaxDeskOps
  /\ i \in 1..Len(history)
  /\ displayed' = DisplayCandidate(Find(history, history[i].id))
  /\ deskOps' = deskOps + 1
  /\ ev' = Ev("display", i)
  /\ UNCHANGED << params, uiSliders, promptInput, renderSliders, essenceTag, analyzeReqs >>
  /\ UNCHANGED DeskFrame
  /\ UNCHANGED labVars
  /\ UNCHANGED legacyVars

\* Metrics of the one result of the session that ended before the run starts.
PreviousMetrics == [ssim |-> 95, idp |-> 93, inference_time |-> 12]

\* An autopilot session has ended on its first result, which reached the
\* target: job 1, one candidate, the lock released.
InitDesk ==
  /\ selectedFile = TRUE
  /\ isProcessing = FALSE
  /\ taskId = 1
  /\ params = DefaultParams
  /\ optActive = FALSE
  /\ attempts = 1
  /\ bestScore = CurrentScore2(PreviousMetrics)
  /\ history = << [id |-> 1, metrics |-> PreviousMetrics, params |-> DefaultParams] >>
  /\ chkAutoPilot = TRUE
  /\ uiSeed = DefaultSeed
  /\ posts = EmptyBag
  /\ intervals = {}
  /\ statusReqs = EmptyBag
  /\ renderTimers = 0
  /\ resultReqs = EmptyBag
  /\ resubmitTimers = 0
  /\ srv = << [st |-> "SUCCESS", metrics |-> PreviousMetrics, params |-> DefaultParams,
               fields |-> DefaultFields, auto |-> FALSE] >>
  /\ delivered = << [ok |-> 1, fail |-> 0, err |-> 0] >>
  /\ clicks = 0
  /\ submitted = 1
  /\ overlaps = 0
  /\ progressReplies = EmptyBag
  /\ ev = Ev("res_stop", 1)
  /\ uiSliders = DefaultSliders
  /\ promptInput = "initial"
  /\ renderSliders = DefaultRender
  /\ essenceTag = StopReport(CurrentScore2(PreviousMetrics), 1)
  /\ displayed = [id |-> 1, metrics |-> PreviousMetrics, params |-> DefaultParams]
  /\ analyzeReqs = 0
  /\ deskOps = 0
  /\ LabInit
  /\ LegacyInit

NextDesk ==
  \/ \E ap \in BOOLEAN : InitializeFusion(ap)
  \/ \E p \in BagToSet(posts) : PostBusy(p)
  \/ \E p \in BagToSet(posts) : PostFailed(p)
  \/ \E p \in BagToSet(posts) : PostAccepted(p, MaxJobs + 1)
  \/ \E p \in BagToSet(posts) : PostNoTaskId(p)
  \/ \E iv \in intervals : IntervalTick(iv)
  \/ \E q \in BagToSet(statusReqs) : StatusProgress(q)
  \/ \E q \in BagToSet(statusReqs) : StatusSuccess(q)
  \/ \E q \in BagToSet(statusReqs) : StatusFailure(q)
  \/ \E q \in BagToSet(statusReqs) : StatusError(q)
  \/ RenderTimerFires
  \/ \E j \in BagToSet(resultReqs) : ResultPending(j)
  \/ \E j \in BagToSet(resultReqs) : ResultReady(j)
  \/ \E j \in BagToSet(resultReqs) : ResultError(j)
  \/ ResubmitTimerFires
  \/ \E j \in 1..Len(srv), m \in MetricSamples : ServerSucceeds(j, m)
  \/ \E j \in 1..Len(srv) : ServerFails(j)
  \/ ExecuteDNAAnalysis
  \/ \E r \in Recommendations : AnalyzeSuccess(r)
  \/ AnalyzeRefused
  \/ AnalyzeError
  \/ UserTypesPrompt
  \/ \E f \in {"resolution_anchor", "steps", "cfg_scale"} : UserMovesSlider(f)
  \/ \E i \in 1..Len(history) : WrapperOnclick(i)

SpecDesk == InitDesk /\ [][NextDesk]_vars

SpecLegacy == Init /\ [][NextLegacy]_vars

\* ------------------------------------- answers that arrive out of order
\* The API answers the request q with PROGRESS while the job runs; the answer
\* is on its way and later requests may be answered and handled before it.
StatusAnsweredProgress(q) ==
  /\ q \in BagToSet(statusReqs)
  /\ srv[q.job].st = "RUN"
  /\ BagCardinality(progressReplies) < MaxOverlaps
  /\ statusReqs' = BagRemove(statusReqs, q)
  /\ progressReplies' = BagAdd(progressReplies, q)
  /\ ev' = Ev("srv_progress", q.job)
  /\ UNCHANGED << params, deskVars, submitted >>
  /\ UNCHANGED << selectedFile, isProcessing, taskId, optActive, attempts, bestScore,
                  history, chkAutoPilot, uiSeed, posts, intervals, renderTimers,
                  resultReqs, resubmitTimers, srv, delivered, clicks, overlaps >>
  /\ UNCHANGED labVars
  /\ UNCHANGED legacyVars

\* The PROGRESS answer to the request q reaches the poller's continuation:
\* the progress bar and the progress text are updated
ProgressReplyArrives(q) ==
  /\ q \in BagToSet(progressReplies)
  /\ progressReplies' = BagRemove(progressReplies, q)
  /\ ev' = Ev("progress_applied", q.job)
  /\ UNCHANGED << params, deskVars, submitted >>
  /\ UNCHANGED << selectedFile, isProcessing, taskId, optActive, attempts, bestScore,
                  history, chkAutoPilot, uiSeed, posts, intervals, statusReqs,
                  renderTimers, resultReqs, resubmitTimers, srv, delivered, clicks,
                  overlaps >>
  /\ UNCHANGED labVars
  /\ UNCHANGED legacyVars

NextStale ==
  \/ SelectFile
  \/ \E ap \in BOOLEAN : InitializeFusion(ap)
  \/ \E p \in BagToSet(posts) : PostBusy(p)
  \/ \E p \in BagToSet(posts) : PostFailed(p)
  \/ \E p \in BagToSet(posts) : PostAccepted(p, MaxJobs)
  \/ \E p \in BagToSet(posts) : PostNoTaskId(p)
  \/ \E iv \in intervals : IntervalTick(iv)
  \/ \E q \in BagToSet(statusReqs) : StatusProgress(q)
  \/ \E q \in BagToSet(statusReqs) : StatusSuccess(q)
  \/ \E q \in BagToSet(statusReqs) : StatusFailure(q)
  \/ \E q \in BagToSet(statusReqs) : StatusError(q)
  \/ RenderTimerFires
  \/ \E j \in BagToSet(resultReqs) : ResultPending(j)
  \/ \E j \in BagToSet(resultReqs) : ResultReady(j)
  \/ \E j \in BagToSet(resultReqs) : ResultError(j)
  \/ ResubmitTimerFires
  \/ \E j \in 1..Len(srv), m \in MetricSamples : ServerSucceeds(j, m)
  \/ \E j \in 1..Len(srv) : ServerFails(j)
  \/ \E q \in BagToSet(statusReqs) : StatusAnsweredProgress(q)
  \/ \E q \in BagToSet(progressReplies) : ProgressReplyArrives(q)

SpecStale == Init /\ [][NextStale]_vars

NextLab ==
  \/ LabSelectFile
  \/ BtnGenerateOnclick
  \/ PostToGatewayAccepted
  \/ PostToGatewayNull
  \/ \E j \in pollingIntervals : PollingTick(j)
  \/ \E j \in BagToSet(labStatusReqs), raw \in ProgressPayloads : LabStatusProgress(j, raw)
  \/ \E j \in BagToSet(labStatusReqs) : LabStatusSuccess(j)
  \/ \E j \in BagToSet(labStatusReqs) : LabStatusFailure(j)
  \/ \E j \in BagToSet(labStatusReqs) : LabStatusError(j)
  \/ \E j \in BagToSet(labResultReqs) : LabResultReady(j)
  \/ \E j \in BagToSet(labResultReqs) : LabResultPending(j)
  \/ \E j \in BagToSet(labResultReqs) : LabResultError(j)
  \/ \E j \in 1..Len(labSrv) : LabServerSucceeds(j)
  \/ \E j \in 1..Len(labSrv) : LabServerAdvances(j)
  \/ \E j \in 1..Len(labSrv) : LabServerMaterializes(j)
  \/ \E j \in 1..Len(labSrv) : LabServerFails(j)

SpecLab == Init /\ [][NextLab]_vars

\* ================================================================ claims
\* Something of the controller still works on job j.
Pursued(j) ==
  \/ taskId = j /\ (intervals # {} \/ renderTimers > 0)
  \/ \E q \in BagToSet(statusReqs) : q.job = j
  \/ j \in BagToSet(resultReqs)

\* A job is non-terminal from its submission until an outcome is handled for it.
NonTerminal(j) == delivered[j] = NoOutcome /\ Pursued(j)

NonTerminalJobs ==
  BagCardinality(posts) + Cardinality({ j \in 1..Len(srv) : NonTerminal(j) })

\* Nothing of the controller is pending: no request, no poller, no timer.
Quiescent ==
  /\ posts = EmptyBag
  /\ intervals = {}
  /\ statusReqs = EmptyBag
  /\ renderTimers = 0
  /\ resultReqs = EmptyBag
  /\ resubmitTimers = 0

\* C1: at most one job is non-terminal (submitted and not yet resolved to a
\* recorded result or a failure) at any time.
C1_SingleFlight == NonTerminalJobs <= 1

\* C2: a submission attempted with no asset selected, or while the lock is
\* held, issues no request: no POST /transform, no status poll, no result
\* fetch, and it starts no poller and no timer.
C2_RejectedLocally ==
  [][ (ev'.op \in {"submit_sent", "submit_rejected"} /\ ~ev'.auto
       /\ (~selectedFile \/ isProcessing))
      => UNCHANGED << posts, intervals, statusReqs, renderTimers, resultReqs,
                      resubmitTimers, isProcessing, taskId >> ]_vars

\* C2 witness: a click was rejected while a job of the controller was in flight.
C2_Witness ==
  /\ ev.op = "submit_rejected"
  /\ selectedFile /\ isProcessing
  /\ NonTerminalJobs = 1

\* C3: whenever nothing is in flight and no resubmission is pending, the lock
\* is free and the controller accepts a new submission.
C3_LockReleased == (Quiescent /\ selectedFile) => SubmitGuard(selectedFile, isProcessing)

\* C4: when the submission request gets a 429 or fails in transport, the lock
\* is released by the handling step, no status poll is started by it, and a
\* manual submission made next is accepted.
C4_SubmitFailureReleases ==
  [][ ev'.op \in {"post_429", "post_err"}
      => /\ ~isProcessing'
         /\ intervals' = intervals
         /\ statusReqs' = statusReqs
         /\ SubmitGuard(selectedFile', isProcessing') ]_vars

\* C4 witness: a 429 was handled and the controller is free again.
C4_Witness == ev.op = "post_429" /\ ~isProcessing /\ selectedFile

\* C5: after an error at submission, polling or result fetch has been handled,
\* the session is not left active with no job in flight and no resubmission
\* pending.
C5_ActiveImpliesAlive ==
  (ev.op \in {"post_429", "post_err", "post_notask", "st_err", "res_err"} /\ optActive)
    => ~Quiescent

\* C6: once a 429 to a submission of the autopilot loop is handled, the
\* session is inactive.
C6_BusyEndsSession == (ev.op = "post_429" /\ ev.auto) => ~optActive

\* C7: for every job the result handler or the FAILURE handler runs at most
\* once: no job has two terminal outcomes delivered.
C7_OneOutcome ==
  \A j \in 1..Len(delivered) : delivered[j].ok + delivered[j].fail <= 1

\* C8: no two entries of the candidate history have the same job identifier.
C8_UniqueIds ==
  \A i, k \in 1..Len(history) : i # k => history[i].id # history[k].id

\* C9: once a FAILURE status is handled the lock is free and the session is
\* inactive in the same step, and from then on no GET /result is issued for
\* the failed job and no candidate is recorded under its identifier.
C9_FailureIsFinal ==
  /\ ev.op = "st_failure" => (~isProcessing /\ ~optActive)
  /\ (ev.op = "render_fetch" /\ ev.job # 0) => delivered[ev.job].fail = 0
  /\ (ev.op \in {"res_stop", "res_continue", "res_single"} /\ taskId # 0)
       => delivered[taskId].fail = 0

\* C10: the body of a 202 answer to GET /result is never handed to the caller
\* as the outcome of the job: the fetch is retried until the result is there.
C10_PendingIsRetried ==
  \A j \in 1..Len(labDelivered) : labDelivered[j].pending = 0

\* C11: a status poll that fails in transport, or whose payload cannot be
\* read, does not end the polling loop: the step that absorbs the error leaves
\* every live poller running.
C11_PollErrorAbsorbed ==
  [][ ev'.op = "st_err" => intervals' = intervals ]_vars

\* C12: every accepted job eventually is terminal locally with the lock
\* released, unless the server itself has reported it finished or failed: a
\* job the server keeps running forever is given up by the controller.
C12_EventuallyTerminal ==
  \A j \in 1..MaxJobs :
    [](Len(srv) >= j
        => <>(/\ Len(srv) >= j
              /\ \/ srv[j].st # "RUN"
                 \/ delivered[j] # NoOutcome /\ ~isProcessing))

\* The GET /status requests outstanding for job j.
PollsOutstanding(j) ==
  LET S == { q \in BagToSet(statusReqs) : q.job = j }
  IN  BagCardinality([q \in S |-> statusReqs[q]])

\* C13: at most one status request of a job is outstanding at any time.
C13_OnePollOutstanding == \A j \in 1..Len(srv) : PollsOutstanding(j) <= 1

\* C14: once a FAILURE status has been handled for a job, no tick issues a
\* GET /status for that job any more.
C14_NoPollAfterTerminal ==
  [][ ev'.op = "tick_poll" => delivered[ev'.job].fail = 0 ]_vars

\* C15: the percentages handed to the progress callback for a job never go
\* down while the server reports percentages that never go down.
C15_ProgressMonotone ==
  [][ \A j \in 1..Len(labProgress) :
        labProgress'[j].arg.percent >= labProgress[j].arg.percent ]_vars

\* C16: when a PROGRESS answer carries a preview payload, what onProgress gets
\* carries the same payload.
C16_PreviewForwarded ==
  \A j \in 1..Len(labProgress) :
    labProgress[j].raw.preview_b64 # "none"
      => labProgress[j].arg.preview_b64 = labProgress[j].raw.preview_b64

\* C17: a status code the dictionary does not have reaches onProgress
\* unchanged.
C17_UnknownCodeVerbatim ==
  \A j \in 1..Len(labProgress) :
    labProgress[j].raw.status_text \notin DOMAIN Dictionary
      => labProgress[j].arg.status_text = labProgress[j].raw.status_text

C19_AttemptsBounded == attempts <= maxAttempts

\* C19 witness: a result has used up the budget and stopped the session.
C19_Witness == ev.op = "res_stop" /\ attempts = maxAttempts /\ ~optActive

\* C20: the step that handles a result reaching the target or using up the
\* budget leaves the session inactive and the lock free, with no resubmission
\* of the session pending or in flight.
C20_StopIsFinal ==
  ev.op = "res_stop"
    => /\ ~optActive
       /\ ~isProcessing
       /\ resubmitTimers = 0
       /\ \A p \in BagToSet(posts) : ~p.auto

\* C21: between two resets of the session by a click on generate, the best
\* score never decreases.
C21_BestScoreMonotone ==
  [][ ~(ev'.op \in {"submit_sent", "submit_rejected"} /\ ~ev'.auto)
      => bestScore' >= bestScore ]_vars

\* C21 witness: the loop has handled a result that scores below the best.
C21_Witness ==
  /\ ev.op \in {"res_continue", "res_stop"}
  /\ Len(history) > 0
  /\ CurrentScore2(history[Len(history)].metrics) < bestScore

\* C22: the target is tested before the budget, and the report tells them
\* apart: a stop on a result that reaches the target, whatever the count of
\* attempts, never shows what a stop on the budget alone shows.
C22_TargetBeforeBudget ==
  [][ ( /\ ev'.op = "res_stop"
        /\ CurrentScore2(history'[Len(history')].metrics) >= targetThreshold2 )
      => essenceTag' # StopReport(targetThreshold2 - 1, maxAttempts) ]_vars

\* C23: when the loop continues, the next depth is min(1.2, depth + 0.03) if
\* the structural similarity of the result is below 0.88, and the depth in
\* use otherwise.
C23_DepthRule ==
  [][ ev'.op = "mutate"
      => params'.cn_depth = IF ev'.metrics.ssim < 88
                            THEN Min(120, params.cn_depth + 3)
                            ELSE params.cn_depth ]_vars

\* C23 witness: a result below the structural floor met a depth that the
\* step would carry beyond 1.2, and the depth was clamped there.
C23_Witness ==
  /\ ev.op = "mutate"
  /\ ev.metrics.ssim < 88
  /\ params.cn_depth = 120

\* C24: when the loop continues, the next strength is max(0.4, strength - 0.02)
\* if the identity preservation of the result is below 0.90, and
\* min(1.0, strength + 0.01) otherwise.
C24_StrengthRule ==
  [][ ev'.op = "mutate"
      => params'.strength = IF ev'.metrics.idp < 90
                            THEN Max(40, params.strength - 2)
                            ELSE Min(100, params.strength + 1) ]_vars

\* C25: the fields the optimizer does not mutate are sent unchanged through a
\* session: a resubmission carries the negative prompt, the feature prompt,
\* the resolution, the steps and the cfg scale that the job it follows carried.
C25_FixedFieldsStable ==
  [][ ( /\ ev'.op = "submit_sent"
        /\ ev'.auto
        /\ taskId \in 1..Len(srv) )
      => /\ SentFields = srv[taskId].fields
         /\ params.negative_prompt = srv[taskId].params.negative_prompt ]_vars

\* C27: the parameters recorded with a candidate are the ones that were sent
\* in the submission of the job the candidate is recorded under.
C27_RecordedAsSent ==
  \A i \in 1..Len(history) :
    history[i].id \in 1..Len(srv) => history[i].params = srv[history[i].id].params

\* C26: a click on generate that submits a job starts a fresh session: as the
\* request leaves, attempts and bestScore are 0 and the history is empty.
C26_ClickResetsSession ==
  [][ (ev'.op = "submit_sent" /\ ~ev'.auto)
      => /\ attempts' = 0
         /\ bestScore' = 0
         /\ history' = << >> ]_vars

\* C26 witness: the click came after a session that had counted an attempt,
\* kept a best score and recorded a candidate for job 1.
C26_Witness ==
  /\ ev.op = "submit_sent"
  /\ ~ev.auto
  /\ Len(srv) >= 1
  /\ delivered[1].ok >= 1
  /\ attempts = 0
  /\ history = << >>

\* C28: looking a recorded candidate up by its job identifier gives back the
\* metrics and the parameters recorded with it.
C28_LookupRoundTrip ==
  \A i \in 1..Len(history) :
    /\ Find(history, history[i].id).metrics = history[i].metrics
    /\ Find(history, history[i].id).params = history[i].params

\* C29: recording a candidate appends it: the history grows by one entry and
\* the entries recorded before stay as they were, in their order.
C29_AppendOnly ==
  [][ ev'.op \in {"res_stop", "res_continue", "res_single"}
      => /\ Len(history') = Len(history) + 1
         /\ \A i \in 1..Len(history) : history'[i] = history[i] ]_vars

\* C29 witness: a candidate was recorded after at least three others.
C29_Witness ==
  /\ ev.op \in {"res_stop", "res_continue"}
  /\ Len(history) >= 4

\* C30: a click on a gallery item changes neither the lock, nor the current
\* job identifier, nor the parameters in use, nor the session, nor the history.
C30_DisplayIsPassive ==
  [][ ev'.op = "display"
      => UNCHANGED << isProcessing, taskId, params, optActive, attempts, bestScore,
                      history >> ]_vars

\* C30 witness: a candidate recorded earlier in a running autopilot session
\* was put on display after the loop had mutated the parameters.
C30_Witness ==
  /\ ev.op = "display"
  /\ optActive
  /\ isProcessing
  /\ displayed.params # params

\* C31: with the optimization disabled, the successful result of a job leaves
\* exactly one candidate recorded, the session inactive with attempts and
\* bestScore at 0, the parameters as they were, no further submission under
\* way and the lock released.
C31_SingleShotUntouched ==
  [][ (ev'.op = "res_single" /\ ~chkAutoPilot)
      => /\ Len(history') = 1
         /\ ~optActive'
         /\ attempts' = 0
         /\ bestScore' = 0
         /\ params' = params
         /\ posts' = posts
         /\ resubmitTimers' = 0
         /\ ~isProcessing' ]_vars

\* C32: the optimizer does not look at inference_time: for the result the
\* loop has just handled, a result that differs from it in inference_time
\* only gets the same stop / continue decision and the same next depth and
\* strength from the same session state and parameters.
C32_InferenceTimeIgnored ==
  [][ ev'.op = "mutate"
      => \A t \in InferenceTimes :
           LET m1 == ev'.metrics
               m2 == [m1 EXCEPT !.inference_time = t]
           IN  /\ \A att \in 1..maxAttempts :
                    StopDecision(CurrentScore2(m2), att) = StopDecision(CurrentScore2(m1), att)
               /\ params'.cn_depth = NextDepth(params, m2)
               /\ params'.strength = NextStrength(params, m2) ]_vars

\* C32 witness: the loop has mutated the parameters on a slow result whose
\* identity preservation is at or above the floor, so the strength went up.
C32_Witness ==
  /\ ev.op = "mutate"
  /\ ev.metrics.inference_time = 47
  /\ ev.metrics.idp >= 90
  /\ params.strength = 71

\* C33: a submission response without task_id ends the submission as an
\* error: once it has been handled, and the poller started for it has found
\* no task and stopped, the lock is released.
C33_NoTaskIdReleases ==
  ( /\ ev.op = "tick_cleared"
    /\ taskId = 0
    /\ intervals = {}
    /\ posts = EmptyBag ) => ~isProcessing

\* C34: in the v16.2.1 controller, once a job has ended, by its result being
\* rendered, by a FAILURE status, by a 429 or by an error, state.isProcessing
\* is false again.
C34_LegacyFlagReleased ==
  [][ legacyEv'.op \in {"res_done", "res_err", "st_failure", "st_err", "post_429",
                        "post_err"}
      => ~legacyIsProcessing' ]_vars

\* C35: a click on generate that the single-flight guard rejects changes
\* neither the session (active, attempts, bestScore), nor the history, nor the
\* parameters of the running job.
C35_RejectedClickIsPassive ==
  [][ (ev'.op = "submit_rejected" /\ ~ev'.auto)
      => UNCHANGED << optActive, attempts, bestScore, history, params >> ]_vars

\* Steps that end a session: a stop decision, or the handling of a failure or
\* an error.
StopOrErrorOps == {"res_stop", "res_err", "st_failure", "st_err", "post_429", "post_err"}

\* C36: the Continue decision only arms the resubmission, which is a later
\* step, and while an active session holds the lock no step other than its
\* stop or an error releases it, so that a manual submission made during the
\* pause is not accepted.
C36_LockHeldThroughPause ==
  [][ ( /\ optActive
        /\ isProcessing
        /\ ev'.op \notin StopOrErrorOps )
      => /\ isProcessing'
         /\ ev'.op = "res_continue"
              => (posts' = posts /\ resubmitTimers' = resubmitTimers + 1)
         /\ (ev'.op = "submit_sent" /\ ~ev'.auto) => FALSE ]_vars

\* C36 witness: during the pause after a Continue decision, with the
\* resubmission armed and not yet sent, a click on generate was rejected.
C36_Witness ==
  /\ ev.op = "submit_rejected"
  /\ ~ev.auto
  /\ optActive
  /\ isProcessing
  /\ resubmitTimers > 0
  /\ posts = EmptyBag

\* C37: a session sends at most maxAttempts submissions, however ticks,
\* status answers and resubmission timers interleave.
C37_SubmissionsBounded == submitted <= maxAttempts

\* C37 witness: the session has sent its last allowed submission through a
\* resubmission timer after a result was handled twice.
C37_Witness ==
  /\ submitted = maxAttempts
  /\ ev.op = "submit_sent"
  /\ ev.auto
  /\ \E j \in 1..Len(delivered) : delivered[j].ok >= 2

\* C38: once the terminal outcome of a job has been handled (its result
\* recorded or its FAILURE handled), no progress update for that job is
\* applied any more, also when a status request sent earlier was answered
\* PROGRESS and the answer arrives late.
C38_NoProgressAfterTerminal ==
  [][ ev'.op \in {"st_progress", "progress_applied"}
      => (delivered[ev'.job].ok = 0 /\ delivered[ev'.job].fail = 0) ]_vars

====
